---- MODULE Spec2Model ----
(***************************************************************************)
(* A model of the spreadsheet normalisation pipeline of csv-parser-backend *)
(* (src/src/utils/csv-parser.ts): parseCSV, parseExcel, mergeUnitsByName,  *)
(* parseFile, and of the upload controller that feeds it to the two sinks. *)
(*                                                                         *)
(* Representation.                                                         *)
(*  - A JavaScript string is a sequence of symbols.  A symbol is either a  *)
(*    character the code looks at (",", ";", "|", TAB, " ", CR, LF, the    *)
(*    two quotes, a digit) or a word standing for a block of other         *)
(*    characters ("Unit Name", "U1", "Column", ...).                       *)
(*  - A JavaScript value is a tagged record: Num(n), Str(s), Null,         *)
(*    Undefined.  typeof v is v.t.                                         *)
(*  - A PropertyUnit (a plain object) is a function from its own keys      *)
(*    (strings) to values; a key that is absent is not in the DOMAIN.      *)
(***************************************************************************)
EXTENDS Integers, Sequences, FiniteSets, TLC

VARIABLES
    \* ---- mergeUnitsByName, one run of the function ----
    data,           \* the argument `data`
    groupedByName,  \* the object built at lines 305-316, in insertion order
    next,           \* index of the next element of data.forEach (line 308)
    keysLeft,       \* what is left of Object.keys(groupedByName).forEach (line 321)
    units,          \* `units` of the current group (line 322)
    mergedUnit,     \* `mergedUnit` of the current group (line 331)
    i,              \* loop index `i` (line 334)
    mergedUnits,    \* `mergedUnits` (line 319)
    mpc,            \* position in mergeUnitsByName
    \* ---- parseFile, one call ----
    file,           \* the Express.Multer.File argument
    fpc,            \* position in parseFile
    calls,          \* the functions parseFile has invoked so far, in order
    excelError,     \* the message of the error parseExcel rejected with, or NoError
    result,         \* the local `result` (line 415)
    returned,       \* the ParseResult parseFile resolved with
    thrown,         \* the message of the error parseFile rejected with, or NoError
    \* ---- UploadController.uploadFile, one request ----
    controller,     \* which uploadFile serves the request: "sequential" or "concurrent"
    hasFile,        \* whether the request carries a file
    upc,            \* position in uploadFile
    upload,         \* the promise of fileStorageService.uploadFile(file)
    storeCall,      \* the call dataStorageService.storeData(...): its argument and promise
    indexCall,      \* the call searchService.indexData(...): its argument and promise
    \* ---- SearchService, one instance, and the search engine behind it ----
    cache,          \* SearchCache.cache: the entries of the Map, in insertion order
    now,            \* Date.now()
    timers,         \* the setTimeout callbacks of indexData that have not run yet
    schemaValidated, \* SearchService.schemaValidated
    collection,     \* the collection 'property_units' in the engine: missing, old schema, ready
    index,          \* the version of the documents in the engine: one more per write
    written,        \* the version the latest completed indexData or updateDocument left
    procs,          \* the calls of search, updateDocument and indexData in progress
    run             \* the batches of the indexData call in progress

mergeVars == <<data, groupedByName, next, keysLeft, units, mergedUnit, i, mergedUnits, mpc>>
fileVars  == <<file, fpc, calls, excelError, result, returned, thrown>>
uploadVars == <<controller, hasFile, upc, upload, storeCall, indexCall>>
searchVars == <<cache, now, timers, schemaValidated, collection, index, written, procs, run>>
vars      == <<data, groupedByName, next, keysLeft, units, mergedUnit, i, mergedUnits, mpc,
               file, fpc, calls, excelError, result, returned, thrown,
               controller, hasFile, upc, upload, storeCall, indexCall,
               cache, now, timers, schemaValidated, collection, index, written, procs, run>>

----------------------------------------------------------------------------
(* JavaScript values *)

Num(n) == [t |-> "number", n |-> n, s |-> <<>>]
Str(s) == [t |-> "string", n |-> 0, s |-> s]
Null == [t |-> "null", n |-> 0, s |-> <<>>]
Undefined == [t |-> "undefined", n |-> 0, s |-> <<>>]

\* v === null || v === undefined || v === ''
IsEmptyValue(v) == v.t \in {"null", "undefined"} \/ (v.t = "string" /\ v.s = <<>>)

\* !v  (ToBoolean(v) is false): undefined, null, '', 0
Falsy(v) == IsEmptyValue(v) \/ (v.t = "number" /\ v.n = 0)

\* obj[key]
Get(obj, key) == IF key \in DOMAIN obj THEN obj[key] ELSE Undefined

\* obj['__proto__'] = v runs the setter inherited from Object.prototype, which
\* changes (or keeps) the prototype and creates no own property
ProtoKey == <<"__proto__">>

\* the own keys of an object literal {} after obj[k] = ... for every k of keys
OwnKeys(keys) == keys \ {ProtoKey}

\* obj[key] = v
Set(obj, key, v) ==
    IF key = ProtoKey THEN obj
    ELSE [k \in DOMAIN obj \cup {key} |-> IF k = key THEN v ELSE obj[k]]

Digit == <<"0", "1", "2", "3", "4", "5", "6", "7", "8", "9">>
DigitSyms == {Digit[d] : d \in 1..10}
DigitVal(c) == (CHOOSE d \in 1..10 : Digit[d] = c) - 1

\* Number.prototype.toString for a non-negative integer
RECURSIVE NatToString(_)
NatToString(n) == IF n < 10 THEN <<Digit[n + 1]>>
                  ELSE NatToString(n \div 10) \o <<Digit[(n % 10) + 1]>>

\* the value of a string of digits
RECURSIVE StrToNat(_)
StrToNat(s) == IF s = <<>> THEN 0
               ELSE 10 * StrToNat(SubSeq(s, 1, Len(s) - 1)) + DigitVal(s[Len(s)])

\* ToPropertyKey(v) for the values used as a key at lines 312-315
ToPropertyKey(v) == IF v.t = "number" THEN NatToString(v.n) ELSE v.s

\* a <= b for two digit strings of the same length
RECURSIVE LexLeq(_, _)
LexLeq(a, b) ==
    IF a = <<>> THEN TRUE
    ELSE IF DigitVal(Head(a)) # DigitVal(Head(b)) THEN DigitVal(Head(a)) < DigitVal(Head(b))
    ELSE LexLeq(Tail(a), Tail(b))

\* a <= b as numbers, for two digit strings without leading zeros
NumStrLeq(a, b) == Len(a) < Len(b) \/ (Len(a) = Len(b) /\ LexLeq(a, b))

\* 2^32 - 2, the largest array index
MaxArrayIndex == <<"4", "2", "9", "4", "9", "6", "7", "2", "9", "4">>

\* A canonical array index ("0", "7", "42"; not "", "07", "U1")
IsArrayIndex(s) ==
    /\ Len(s) >= 1
    /\ \A j \in 1..Len(s) : s[j] \in DigitSyms
    /\ (Len(s) > 1 => s[1] # "0")
    /\ NumStrLeq(s, MaxArrayIndex)

\* the properties every `{}` inherits from Object.prototype
ObjectPrototypeProps ==
    { <<"constructor">>, <<"hasOwnProperty">>, <<"isPrototypeOf">>,
      <<"propertyIsEnumerable">>, <<"toLocaleString">>, <<"toString">>,
      <<"valueOf">>, <<"__proto__">>, <<"__defineGetter__">>,
      <<"__defineSetter__">>, <<"__lookupGetter__">>, <<"__lookupSetter__">> }

----------------------------------------------------------------------------
(* Bounds and inputs of the model *)

MaxRecords == 3

UnitNameKey == <<"Unit Name">>
UnitPriceKey == <<"Unit Price">>
FloorKey == <<"Floor">>
PhaseKey == <<"Phase">>

\* the values the 'Unit Name' field of an input record takes (Undefined: no such field)
InputUnitNames ==
    { Undefined, Str(<<>>), Str(<<"U1">>), Str(<<"2">>), Str(<<"1">>),
      Num(0), Num(1), Str(<<"constructor">>) }

\* the other fields of an input record
InputPayloads ==
    { <<>>,
      UnitPriceKey :> Num(100), UnitPriceKey :> Num(50), UnitPriceKey :> Str(<<"A">>),
      FloorKey :> Num(3), FloorKey :> Num(5),
      PhaseKey :> Str(<<"A">>), PhaseKey :> Str(<<"B">>), PhaseKey :> Str(<<>>),
      (UnitPriceKey :> Num(0)) @@ (PhaseKey :> Str(<<"A">>)) }

\* the other fields of the records that exercise the key
KeyPayloads == { UnitPriceKey :> Num(100), PhaseKey :> Str(<<"B">>) }

MkUnit(name, payload) ==
    IF name = Undefined THEN payload ELSE (UnitNameKey :> name) @@ payload

\* the records mergeUnitsByName is given: every payload under the key "U1", and
\* every key value with two of the payloads
InputUnits ==
    { MkUnit(Str(<<"U1">>), pl) : pl \in InputPayloads }
        \cup { MkUnit(nm, pl) : nm \in InputUnitNames, pl \in KeyPayloads }

SeqsUpTo(S, n) == UNION { [1..m -> S] : m \in 0..n }

----------------------------------------------------------------------------
(* mergeUnitsByName, csv-parser.ts lines 303-402 *)

fieldsToSum ==
    { <<"Unit Price">>, <<"Finishing price">>, <<"Final Total Unit Price">>,
      <<"Building Plot Area">>, <<"Unit Gross Area">>, <<"Land Area">>,
      <<"Garden Area">>, <<"Sellable Unit Area">>, <<"Maintenance Fees per SQM">>,
      <<"Maintenance Value">>, <<"Amenities (Club)">>, <<"Parking Price">> }

\* groupedByName is a sequence of [key, units] in the order the keys were created
HasOwn(g, key) == \E j \in 1..Len(g) : g[j].key = key
UnitsOf(g, key) == g[CHOOSE j \in 1..Len(g) : g[j].key = key].units

\* the array-index keys of a key set, ascending
RECURSIVE SortedIndexKeys(_)
SortedIndexKeys(ks) ==
    IF ks = {} THEN <<>>
    ELSE LET m == CHOOSE k \in ks : \A o \in ks : NumStrLeq(k, o)
         IN  <<m>> \o SortedIndexKeys(ks \ {m})

RECURSIVE ObjectKeysFrom(_, _)
ObjectKeysFrom(g, j) ==
    IF j > Len(g) THEN <<>>
    ELSE (IF IsArrayIndex(g[j].key) THEN <<>> ELSE <<g[j].key>>) \o ObjectKeysFrom(g, j + 1)

\* Object.keys(groupedByName): integer-like keys ascending, then the rest in
\* insertion order (OrdinaryOwnPropertyKeys)
ObjectKeys(g) ==
    SortedIndexKeys({ g[j].key : j \in { x \in 1..Len(g) : IsArrayIndex(g[x].key) } })
        \o ObjectKeysFrom(g, 1)

\* one iteration of data.forEach, lines 308-316: the new groupedByName, or a TypeError
\* when groupedByName[unitName] is an inherited property, which has no push
GroupUnit(g, unit) ==
    LET unitName == Get(unit, UnitNameKey)
        key == ToPropertyKey(unitName)
    IN  IF Falsy(unitName) THEN [err |-> FALSE, g |-> g]
        ELSE IF HasOwn(g, key)
            THEN [err |-> FALSE,
                  g |-> [j \in 1..Len(g) |->
                            IF g[j].key = key
                            THEN [key |-> key, units |-> Append(g[j].units, unit)]
                            ELSE g[j]]]
        ELSE IF key \in ObjectPrototypeProps THEN [err |-> TRUE, g |-> g]
        ELSE [err |-> FALSE, g |-> Append(g, [key |-> key, units |-> <<unit>>])]

\* MergeField without the sum: two numbers always keep the first
MergeFieldFirstWins(acc, key, currentValue) ==
    IF IsEmptyValue(currentValue) THEN acc
    ELSE IF IsEmptyValue(Get(acc, key)) THEN Set(acc, key, currentValue)
    ELSE IF currentValue.t = "number" /\ acc[key].t = "number" THEN acc
    ELSE IF currentValue.t = "string" /\ acc[key].t = "string" /\ currentValue # acc[key]
        THEN Set(acc, key, Str(acc[key].s \o <<",", " ">> \o currentValue.s))
    ELSE acc

\* MergeField without the allow-list: two numbers are always summed
MergeFieldSumsAll(acc, key, currentValue) ==
    IF IsEmptyValue(currentValue) THEN acc
    ELSE IF IsEmptyValue(Get(acc, key)) THEN Set(acc, key, currentValue)
    ELSE IF currentValue.t = "number" /\ acc[key].t = "number"
        THEN Set(acc, key, Num(acc[key].n + currentValue.n))
    ELSE IF currentValue.t = "string" /\ acc[key].t = "string" /\ currentValue # acc[key]
        THEN Set(acc, key, Str(acc[key].s \o <<",", " ">> \o currentValue.s))
    ELSE acc

\* MergeField that skips a string the accumulator already ends with
MergeFieldDeduplicates(acc, key, currentValue) ==
    IF IsEmptyValue(currentValue) THEN acc
    ELSE IF IsEmptyValue(Get(acc, key)) THEN Set(acc, key, currentValue)
    ELSE IF currentValue.t = "number" /\ acc[key].t = "number"
        THEN IF key \in fieldsToSum
             THEN Set(acc, key, Num(acc[key].n + currentValue.n))
             ELSE acc
    ELSE IF /\ currentValue.t = "string" /\ acc[key].t = "string"
            /\ currentValue # acc[key]
            /\ \A j \in 1..Len(acc[key].s) : <<acc[key].s[j]>> # currentValue.s
        THEN Set(acc, key, Str(acc[key].s \o <<",", " ">> \o currentValue.s))
    ELSE acc

\* MergeField where a value of the other type replaces the accumulator's
MergeFieldMixedOverwrites(acc, key, currentValue) ==
    IF IsEmptyValue(currentValue) THEN acc
    ELSE IF IsEmptyValue(Get(acc, key)) THEN Set(acc, key, currentValue)
    ELSE IF currentValue.t = "number" /\ acc[key].t = "number"
        THEN IF key \in fieldsToSum
             THEN Set(acc, key, Num(acc[key].n + currentValue.n))
             ELSE acc
    ELSE IF currentValue.t = "string" /\ acc[key].t = "string" /\ currentValue # acc[key]
        THEN Set(acc, key, Str(acc[key].s \o <<",", " ">> \o currentValue.s))
    ELSE IF currentValue.t # acc[key].t THEN Set(acc, key, currentValue)
    ELSE acc

\* the body of Object.keys(unit).forEach, lines 338-395, for one key
MergeField(acc, key, currentValue) ==
    IF IsEmptyValue(currentValue) THEN acc
    ELSE IF IsEmptyValue(Get(acc, key)) THEN Set(acc, key, currentValue)
    ELSE IF currentValue.t = "number" /\ acc[key].t = "number"
        THEN IF key \in fieldsToSum
             THEN Set(acc, key, Num(acc[key].n + currentValue.n))
             ELSE acc
    ELSE IF currentValue.t = "string" /\ acc[key].t = "string" /\ currentValue # acc[key]
        THEN Set(acc, key, Str(acc[key].s \o <<",", " ">> \o currentValue.s))
    ELSE acc

\* one iteration of the loop at line 334: every key of `unit` merged into acc
RECURSIVE MergeKeys(_, _, _)
MergeKeys(acc, unit, keys) ==
    IF keys = {} THEN acc
    ELSE LET k == CHOOSE x \in keys : TRUE
         IN  MergeKeys(MergeField(acc, k, unit[k]), unit, keys \ {k})

MergeUnit(acc, unit) == MergeKeys(acc, unit, DOMAIN unit)

RECURSIVE FoldUnits(_, _, _)
FoldUnits(acc, us, j) ==
    IF j > Len(us) THEN acc ELSE FoldUnits(MergeUnit(acc, us[j]), us, j + 1)

\* lines 322-398 for one group
MergeGroup(us) == IF Len(us) = 1 THEN us[1] ELSE FoldUnits(us[1], us, 2)

RECURSIVE GroupAll(_, _, _)
GroupAll(g, d, j) ==
    IF j > Len(d) THEN [err |-> FALSE, g |-> g]
    ELSE LET r == GroupUnit(g, d[j])
         IN  IF r.err THEN r ELSE GroupAll(r.g, d, j + 1)

\* the whole function: [err |-> TRUE] when it throws, else its return value
mergeUnitsByName(d) ==
    LET r == GroupAll(<<>>, d, 1)
        ks == ObjectKeys(r.g)
    IN  IF r.err THEN [err |-> TRUE, value |-> <<>>]
        ELSE [err |-> FALSE,
              value |-> [j \in 1..Len(ks) |-> MergeGroup(UnitsOf(r.g, ks[j]))]]

----------------------------------------------------------------------------
(* mergeUnitsByName as a state machine: one step per loop iteration *)

\* an error is its message, a string; no error is the empty message
NoError == <<>>
None == [set |-> FALSE, value |-> [data |-> <<>>, fields |-> <<>>, detectedFields |-> <<>>]]
Some(v) == [set |-> TRUE, value |-> v]
NoRead == [throws |-> FALSE, message |-> <<>>, rows |-> <<>>]
NoFile == [originalname |-> <<>>, size |-> 0, text |-> <<>>, strict |-> NoRead, lenient |-> NoRead]

\* a sink that has not been called; a call with its argument, pending
NoCall == [called |-> FALSE, arg |-> <<>>, status |-> "none"]
Call(arg) == [called |-> TRUE, arg |-> arg, status |-> "pending"]

\* the calls of the search service the model follows: two calls of search and
\* one call of indexData or updateDocument
Searchers == {"s1", "s2"}
Writer == "w"
Procs == Searchers \cup {Writer}

\* what a call has returned or thrown; `data` is the version of the documents a
\* search result was computed from, `written` the value of written at the return
NoOutcome == [kind |-> "none", data |-> 0, fromCache |-> FALSE, written |-> 0]

\* a call that has not been made
IdleProc ==
    [op |-> "none", pc |-> "idle", sortBy |-> "", useCache |-> FALSE, stack |-> <<>>,
     retryCount |-> 0, resets |-> 0, ready |-> FALSE, back |-> "", seen |-> 0,
     mine |-> 0, out |-> NoOutcome]

\* what indexData resolves with
NoIndexResult ==
    [returned |-> FALSE, success |-> FALSE, totalItems |-> 0, successCount |-> 0,
     failedCount |-> 0]

\* no indexData call in progress
NoRun ==
    [n |-> 0, batches |-> <<>>, i |-> 0, state |-> <<>>, items |-> <<>>, started |-> <<>>,
     results |-> [success |-> 0, failed |-> 0], result |-> NoIndexResult]

\* the service right after construction, its collection not created yet
SearchIdle ==
    /\ cache = <<>>
    /\ now = 0
    /\ timers = 0
    /\ schemaValidated = FALSE
    /\ collection = "missing"
    /\ index = 0
    /\ written = 0
    /\ procs = [p \in Procs |-> IdleProc]
    /\ run = NoRun

\* no request is being served
UploadIdle ==
    /\ controller = "none"
    /\ hasFile = FALSE
    /\ upc = "idle"
    /\ upload = "none"
    /\ storeCall = NoCall
    /\ indexCall = NoCall

FileIdle ==
    /\ file = NoFile
    /\ fpc = "idle"
    /\ calls = <<>>
    /\ excelError = NoError
    /\ result = None
    /\ returned = None
    /\ thrown = NoError

MergeInit ==
    /\ data \in SeqsUpTo(InputUnits, MaxRecords)
    /\ groupedByName = <<>>
    /\ next = 1
    /\ keysLeft = <<>>
    /\ units = <<>>
    /\ mergedUnit = <<>>
    /\ i = 0
    /\ mergedUnits = <<>>
    /\ mpc = "group"
    /\ FileIdle
    /\ UploadIdle
    /\ SearchIdle

\* lines 308-316, one element of data
GroupStep ==
    /\ mpc = "group"
    /\ next <= Len(data)
    /\ LET r == GroupUnit(groupedByName, data[next])
       IN  /\ groupedByName' = r.g
           /\ mpc' = IF r.err THEN "error" ELSE "group"
    /\ next' = next + 1
    /\ UNCHANGED <<data, keysLeft, units, mergedUnit, i, mergedUnits>>
    /\ UNCHANGED fileVars
    /\ UNCHANGED uploadVars
    /\ UNCHANGED searchVars

\* line 321: Object.keys(groupedByName)
StartGroups ==
    /\ mpc = "group"
    /\ next > Len(data)
    /\ keysLeft' = ObjectKeys(groupedByName)
    /\ mpc' = "merge"
    /\ UNCHANGED <<data, groupedByName, next, units, mergedUnit, i, mergedUnits>>
    /\ UNCHANGED fileVars
    /\ UNCHANGED uploadVars
    /\ UNCHANGED searchVars

\* lines 322-328: a group of one
PassSingle ==
    /\ mpc = "merge"
    /\ keysLeft # <<>>
    /\ Len(UnitsOf(groupedByName, Head(keysLeft))) = 1
    /\ units' = UnitsOf(groupedByName, Head(keysLeft))
    /\ mergedUnits' = Append(mergedUnits, UnitsOf(groupedByName, Head(keysLeft))[1])
    /\ keysLeft' = Tail(keysLeft)
    /\ UNCHANGED <<data, groupedByName, next, mergedUnit, i, mpc>>
    /\ UNCHANGED fileVars
    /\ UNCHANGED uploadVars
    /\ UNCHANGED searchVars

\* lines 322-331: a group of several, the accumulator starts as a copy of the first
StartFold ==
    /\ mpc = "merge"
    /\ keysLeft # <<>>
    /\ Len(UnitsOf(groupedByName, Head(keysLeft))) > 1
    /\ units' = UnitsOf(groupedByName, Head(keysLeft))
    /\ mergedUnit' = UnitsOf(groupedByName, Head(keysLeft))[1]
    /\ i' = 2
    /\ mpc' = "fold"
    /\ UNCHANGED <<data, groupedByName, next, keysLeft, mergedUnits>>
    /\ UNCHANGED fileVars
    /\ UNCHANGED uploadVars
    /\ UNCHANGED searchVars

\* lines 334-396, one iteration
FoldStep ==
    /\ mpc = "fold"
    /\ i <= Len(units)
    /\ mergedUnit' = MergeUnit(mergedUnit, units[i])
    /\ i' = i + 1
    /\ UNCHANGED <<data, groupedByName, next, keysLeft, units, mergedUnits, mpc>>
    /\ UNCHANGED fileVars
    /\ UNCHANGED uploadVars
    /\ UNCHANGED searchVars

\* line 398
PushMerged ==
    /\ mpc = "fold"
    /\ i > Len(units)
    /\ mergedUnits' = Append(mergedUnits, mergedUnit)
    /\ keysLeft' = Tail(keysLeft)
    /\ mpc' = "merge"
    /\ UNCHANGED <<data, groupedByName, next, units, mergedUnit, i>>
    /\ UNCHANGED fileVars
    /\ UNCHANGED uploadVars
    /\ UNCHANGED searchVars

\* line 401
ReturnMerged ==
    /\ mpc = "merge"
    /\ keysLeft = <<>>
    /\ mpc' = "done"
    /\ UNCHANGED <<data, groupedByName, next, keysLeft, units, mergedUnit, i, mergedUnits>>
    /\ UNCHANGED fileVars
    /\ UNCHANGED uploadVars
    /\ UNCHANGED searchVars

MergeNext ==
    \/ GroupStep
    \/ StartGroups
    \/ PassSingle
    \/ StartFold
    \/ FoldStep
    \/ PushMerged
    \/ ReturnMerged

Spec == MergeInit /\ [][MergeNext]_vars

\* the state machine computes what the function computes
StepwiseAgrees ==
    /\ mpc = "done" => mergeUnitsByName(data) = [err |-> FALSE, value |-> mergedUnits]
    /\ mpc = "error" => mergeUnitsByName(data).err

----------------------------------------------------------------------------
(* What the claims about mergeUnitsByName speak of *)

\* the key under which a record is grouped
GroupKey(u) == ToPropertyKey(Get(u, UnitNameKey))

\* the records of d that share the Unit Name `key`, in input order
GroupOf(d, key) ==
    SelectSeq(d, LAMBDA u : ~IsEmptyValue(Get(u, UnitNameKey)) /\ GroupKey(u) = key)

\* the non-empty values the records of us have for a field, in order
RECURSIVE PresentValues(_, _)
PresentValues(us, key) ==
    IF us = <<>> THEN <<>>
    ELSE (IF IsEmptyValue(Get(Head(us), key)) THEN <<>> ELSE <<Get(Head(us), key)>>)
             \o PresentValues(Tail(us), key)

RECURSIVE SumNums(_)
SumNums(vs) == IF vs = <<>> THEN 0 ELSE Head(vs).n + SumNums(Tail(vs))

AllOfType(vs, ty) == \A j \in 1..Len(vs) : vs[j].t = ty

Folding == mpc = "fold" /\ i <= Len(units)

\* C1: when the accumulator's and the incoming value of an allow-listed field are
\* both numbers the merged value is their sum, and a group whose values for such a
\* field are all numbers folds to the sum of those values.
C1_StepSums ==
    Folding =>
        \A key \in fieldsToSum :
            (Get(mergedUnit, key).t = "number" /\ Get(units[i], key).t = "number")
                => mergedUnit'[key] = Num(mergedUnit[key].n + units[i][key].n)

C1_GroupSums ==
    mpc = "done" =>
        \A j \in 1..Len(mergedUnits) : \A key \in fieldsToSum :
            LET vs == PresentValues(GroupOf(data, GroupKey(mergedUnits[j])), key)
            IN  (vs # <<>> /\ AllOfType(vs, "number"))
                    => Get(mergedUnits[j], key) = Num(SumNums(vs))

C1_SummableNumbersSum == [][C1_StepSums]_vars /\ []C1_GroupSums

\* Unit Price 100 and 50 under one Unit Name have merged to 150
C1_Witness ==
    /\ mpc = "done"
    /\ \E j \in 1..Len(mergedUnits) :
          /\ Get(mergedUnits[j], UnitPriceKey) = Num(150)
          /\ PresentValues(GroupOf(data, GroupKey(mergedUnits[j])), UnitPriceKey)
                = <<Num(100), Num(50)>>

\* C2: when the accumulator's and the incoming value of a field outside the
\* allow-list are both numbers the accumulator keeps its value, and a group whose
\* first value for such a field is a number ends with that first value, whatever
\* the later values are.
C2_StepKeepsFirst ==
    Folding =>
        \A key \in DOMAIN units[i] \ fieldsToSum :
            (Get(mergedUnit, key).t = "number" /\ units[i][key].t = "number")
                => mergedUnit'[key] = mergedUnit[key]

C2_GroupKeepsFirst ==
    mpc = "done" =>
        \A j \in 1..Len(mergedUnits) : \A key \in DOMAIN mergedUnits[j] \ fieldsToSum :
            LET vs == PresentValues(GroupOf(data, GroupKey(mergedUnits[j])), key)
            IN  (vs # <<>> /\ vs[1].t = "number") => mergedUnits[j][key] = vs[1]

C2_OtherNumbersFirstWins == [][C2_StepKeepsFirst]_vars /\ []C2_GroupKeepsFirst

\* Floor 3 then Floor 5 under one Unit Name have merged to Floor 3
C2_Witness ==
    /\ mpc = "done"
    /\ \E j \in 1..Len(mergedUnits) :
          /\ Get(mergedUnits[j], FloorKey) = Num(3)
          /\ PresentValues(GroupOf(data, GroupKey(mergedUnits[j])), FloorKey)
                = <<Num(3), Num(5)>>

\* C3: when the accumulator's and the incoming value of a field are both strings
\* and differ, the merged value is "<existing>, <incoming>"; applied in input
\* order and without removing duplicates: Phase A, B gives "A, B" and A, B, A
\* gives "A, B, A".
C3_StepConcatenates ==
    Folding =>
        \A key \in DOMAIN units[i] :
            ( /\ Get(mergedUnit, key).t = "string"
              /\ units[i][key].t = "string"
              /\ ~IsEmptyValue(Get(mergedUnit, key))
              /\ ~IsEmptyValue(units[i][key])
              /\ units[i][key] # mergedUnit[key] )
                => mergedUnit'[key] = Str(mergedUnit[key].s \o <<",", " ">> \o units[i][key].s)

C3_GroupConcatenates ==
    mpc = "done" =>
        \A j \in 1..Len(mergedUnits) :
            LET vs == PresentValues(GroupOf(data, GroupKey(mergedUnits[j])), PhaseKey)
            IN  /\ vs = <<Str(<<"A">>), Str(<<"B">>)>>
                    => Get(mergedUnits[j], PhaseKey) = Str(<<"A", ",", " ", "B">>)
                /\ vs = <<Str(<<"A">>), Str(<<"B">>), Str(<<"A">>)>>
                    => Get(mergedUnits[j], PhaseKey)
                         = Str(<<"A", ",", " ", "B", ",", " ", "A">>)

C3_StringsConcatenate == [][C3_StepConcatenates]_vars /\ []C3_GroupConcatenates

\* Phase A, B, A under one Unit Name has merged to "A, B, A"
C3_Witness ==
    /\ mpc = "done"
    /\ \E j \in 1..Len(mergedUnits) :
          /\ Get(mergedUnits[j], PhaseKey) = Str(<<"A", ",", " ", "B", ",", " ", "A">>)
          /\ Len(GroupOf(data, GroupKey(mergedUnits[j]))) = 3

\* a record without a usable key: 'Unit Name' absent, null or ''
LacksKey(u) == IsEmptyValue(Get(u, UnitNameKey))

\* C4: a record whose 'Unit Name' is absent or empty never appears in and never
\* contributes to the output, and the merger raises no error for any input.
C4_KeylessDroppedNoError ==
    /\ mpc # "error"
    /\ mpc = "done" =>
          /\ \A j \in 1..Len(mergedUnits) : ~LacksKey(mergedUnits[j])
          /\ mergedUnits = mergeUnitsByName(SelectSeq(data, LAMBDA u : ~LacksKey(u))).value

\* C5: the output has exactly one record per distinct non-empty 'Unit Name' value
\* of the input, numeric key values included, and no two output records share a
\* Unit Name.
C5_OnePerDistinctKey ==
    mpc = "done" =>
        /\ \A j, k \in 1..Len(mergedUnits) :
              Get(mergedUnits[j], UnitNameKey) = Get(mergedUnits[k], UnitNameKey) => j = k
        /\ \A n \in 1..Len(data) :
              ~LacksKey(data[n]) =>
                  Cardinality({ j \in 1..Len(mergedUnits) :
                      Get(mergedUnits[j], UnitNameKey) = Get(data[n], UnitNameKey) }) = 1

\* every record has a non-empty Unit Name and no two records share one
SingletonPerKey(d) ==
    /\ \A n \in 1..Len(d) : ~LacksKey(d[n])
    /\ \A n, k \in 1..Len(d) :
          Get(d[n], UnitNameKey) = Get(d[k], UnitNameKey) => n = k

\* the records of a sequence, without their order
Records(d) == { d[n] : n \in 1..Len(d) }

\* C6: an input with a distinct non-empty Unit Name per record comes back with the
\* same records unchanged, and merging the output again changes nothing.
C6_Idempotent ==
    /\ (mpc \in {"done", "error"} /\ SingletonPerKey(data)) =>
          /\ mpc = "done"
          /\ Len(mergedUnits) = Len(data)
          /\ Records(mergedUnits) = Records(data)
    /\ mpc = "done" => mergeUnitsByName(mergedUnits) = [err |-> FALSE, value |-> mergedUnits]

----------------------------------------------------------------------------
(* JavaScript string operations used by the parsers *)

SP == " "
TAB == "TAB"
LF == "LF"
CR == "CR"
DQ == "DQ"
SQ == "SQ"

WhiteSpace == {SP, TAB, LF, CR}
LineTerminators == {LF, CR}
Quotes == {DQ, SQ}

RECURSIVE TrimStart(_)
TrimStart(s) == IF s # <<>> /\ Head(s) \in WhiteSpace THEN TrimStart(Tail(s)) ELSE s

RECURSIVE TrimEnd(_)
TrimEnd(s) ==
    IF s # <<>> /\ s[Len(s)] \in WhiteSpace THEN TrimEnd(SubSeq(s, 1, Len(s) - 1)) ELSE s

\* String.prototype.trim
Trim(s) == TrimEnd(TrimStart(s))

\* s.split(d) for a one-character separator d: never empty, '' splits to ['']
RECURSIVE Split(_, _)
Split(s, d) ==
    IF \A j \in 1..Len(s) : s[j] # d THEN <<s>>
    ELSE LET k == CHOOSE j \in 1..Len(s) : s[j] = d /\ \A l \in 1..(j - 1) : s[l] # d
         IN  <<SubSeq(s, 1, k - 1)>> \o Split(SubSeq(s, k + 1, Len(s)), d)

\* s.split(/\r?\n/): a CR right before the LF belongs to the separator
RECURSIVE SplitLines(_)
SplitLines(s) ==
    IF \A j \in 1..Len(s) : s[j] # LF THEN <<s>>
    ELSE LET k == CHOOSE j \in 1..Len(s) : s[j] = LF /\ \A l \in 1..(j - 1) : s[l] # LF
             e == IF k > 1 /\ s[k - 1] = CR THEN k - 2 ELSE k - 1
         IN  <<SubSeq(s, 1, e)>> \o SplitLines(SubSeq(s, k + 1, Len(s)))

\* s.replace(/^["'](.+)["']$/, '$1'): a quote at each end (either kind) around at
\* least one character, none of them a line terminator
StripQuotes(s) ==
    IF /\ Len(s) >= 3
       /\ s[1] \in Quotes
       /\ s[Len(s)] \in Quotes
       /\ \A j \in 2..(Len(s) - 1) : s[j] \notin LineTerminators
    THEN SubSeq(s, 2, Len(s) - 1)
    ELSE s

\* Number(s) for a string over the model's symbols (digits, signs, "Infinity",
\* white space and words): nan, or the number
Infinity == [t |-> "number", n |-> 0, s |-> <<"Infinity">>]
MinusInfinity == [t |-> "number", n |-> 0, s |-> <<"-Infinity">>]
NaN == [t |-> "number", n |-> 0, s |-> <<"NaN">>]

AllDigits(s) == s # <<>> /\ \A j \in 1..Len(s) : s[j] \in DigitSyms

ToNumber(s) ==
    LET u == Trim(s)
        signed == u # <<>> /\ Head(u) \in {"+", "-"}
        body == IF signed THEN Tail(u) ELSE u
        neg == signed /\ Head(u) = "-"
    IN  IF u = <<>> THEN Num(0)
        ELSE IF AllDigits(body) THEN Num(IF neg THEN 0 - StrToNat(body) ELSE StrToNat(body))
        ELSE IF body = <<"Infinity">> THEN (IF neg THEN MinusInfinity ELSE Infinity)
        ELSE NaN

\* isNaN(v) for a number v
IsNaN(v) == v = NaN

----------------------------------------------------------------------------
(* parseCSV, csv-parser.ts lines 20-138 *)

EmptyResult == [data |-> <<>>, fields |-> <<>>, detectedFields |-> <<>>]

possibleDelimiters == <<",", ";", TAB, "|">>

\* Sniff where a later candidate wins a tie
RECURSIVE SniffLastWins(_, _)
SniffLastWins(firstRow, j) ==
    IF j = 0 THEN [bestDelimiter |-> ",", maxFields |-> 0]
    ELSE LET prev == SniffLastWins(firstRow, j - 1)
             count == Len(Split(firstRow, possibleDelimiters[j]))
         IN  IF count >= prev.maxFields
             THEN [bestDelimiter |-> possibleDelimiters[j], maxFields |-> count]
             ELSE prev

\* lines 33-42: the running (bestDelimiter, maxFields) after the first j candidates
RECURSIVE Sniff(_, _)
Sniff(firstRow, j) ==
    IF j = 0 THEN [bestDelimiter |-> ",", maxFields |-> 0]
    ELSE LET prev == Sniff(firstRow, j - 1)
             count == Len(Split(firstRow, possibleDelimiters[j]))
         IN  IF count > prev.maxFields
             THEN [bestDelimiter |-> possibleDelimiters[j], maxFields |-> count]
             ELSE prev

BestDelimiter(firstRow) == Sniff(firstRow, Len(possibleDelimiters)).bestDelimiter

\* lines 45-48
CleanHeader(h) == StripQuotes(Trim(h))

\* ValidHeader without the test for an empty header
ValidHeaderOnlyColumn(h) == h = <<>> \/ Head(h) # "Column"

\* lines 54, 60: header && !header.startsWith('Column')
ValidHeader(h) == h # <<>> /\ Head(h) # "Column"

\* ValidHeaderIndexes where the valid headers are renumbered 1, 2, ...
ValidHeaderIndexesCompacted(hs, j) ==
    [k \in 1..Cardinality({ l \in j..Len(hs) : ValidHeader(hs[l]) }) |-> k]

\* lines 51-56: the (1-based) column indexes of the valid headers, ascending
RECURSIVE ValidHeaderIndexes(_, _)
ValidHeaderIndexes(hs, j) ==
    IF j > Len(hs) THEN <<>>
    ELSE (IF ValidHeader(hs[j]) THEN <<j>> ELSE <<>>) \o ValidHeaderIndexes(hs, j + 1)

\* CsvItem where a name that is already set is not overwritten
RECURSIVE CsvItemFirstWins(_, _, _, _)
CsvItemFirstWins(headers, idx, values, j) ==
    IF j = 0 THEN <<>>
    ELSE LET item == CsvItemFirstWins(headers, idx, values, j - 1)
             raw == IF idx[j] <= Len(values) THEN Trim(values[idx[j]]) ELSE <<>>
             value == StripQuotes(raw)
         IN  IF value # <<>> /\ headers[j] \notin DOMAIN item
             THEN Set(item, headers[j], Str(value))
             ELSE item

\* CsvItem where an empty value is stored too
RECURSIVE CsvItemStoresEmpty(_, _, _, _)
CsvItemStoresEmpty(headers, idx, values, j) ==
    IF j = 0 THEN <<>>
    ELSE LET item == CsvItemStoresEmpty(headers, idx, values, j - 1)
             raw == IF idx[j] <= Len(values) THEN Trim(values[idx[j]]) ELSE <<>>
             value == StripQuotes(raw)
         IN  Set(item, headers[j], Str(value))

\* CsvItem where a value that reads as a number is stored as that number
RECURSIVE CsvItemCoerces(_, _, _, _)
CsvItemCoerces(headers, idx, values, j) ==
    IF j = 0 THEN <<>>
    ELSE LET item == CsvItemCoerces(headers, idx, values, j - 1)
             raw == IF idx[j] <= Len(values) THEN Trim(values[idx[j]]) ELSE <<>>
             value == StripQuotes(raw)
         IN  IF value = <<>> THEN item
             ELSE IF IsNaN(ToNumber(value)) THEN Set(item, headers[j], Str(value))
             ELSE Set(item, headers[j], ToNumber(value))

\* lines 74-87: the item after the first j valid headers of a row
RECURSIVE CsvItem(_, _, _, _)
CsvItem(headers, idx, values, j) ==
    IF j = 0 THEN <<>>
    ELSE LET item == CsvItem(headers, idx, values, j - 1)
             raw == IF idx[j] <= Len(values) THEN Trim(values[idx[j]]) ELSE <<>>
             value == StripQuotes(raw)
         IN  IF value # <<>> THEN Set(item, headers[j], Str(value)) ELSE item

\* lines 66-93: the records of rows j.. of the file
RECURSIVE CsvRows(_, _, _, _, _)
CsvRows(rows, d, headers, idx, j) ==
    IF j > Len(rows) THEN <<>>
    ELSE LET row == Trim(rows[j])
             item == CsvItem(headers, idx, Split(row, d), Len(headers))
         IN  (IF row = <<>> \/ DOMAIN item = {} THEN <<>> ELSE <<item>>)
                 \o CsvRows(rows, d, headers, idx, j + 1)

\* lines 101-125 for one header
CsvFieldInfo(items, header) ==
    LET hits == { j \in 1..Len(items) : ~IsEmptyValue(Get(items[j], header)) }
    IN  IF hits = {} THEN [type |-> "string", label |-> header, example |-> Null]
        ELSE LET value == items[CHOOSE j \in hits : \A k \in hits : j <= k][header]
             IN  IF ~IsNaN(ToNumber(value.s))
                 THEN [type |-> "number", label |-> header, example |-> ToNumber(value.s)]
                 ELSE [type |-> "string", label |-> header, example |-> value]

parseCSV(csvString) ==
    LET rows == SplitLines(Trim(csvString))
        bestDelimiter == BestDelimiter(rows[1])
        allHeaders == [j \in 1..Len(Split(rows[1], bestDelimiter)) |->
                          CleanHeader(Split(rows[1], bestDelimiter)[j])]
        validHeaderIndexes == ValidHeaderIndexes(allHeaders, 1)
        headers == [j \in 1..Len(validHeaderIndexes) |-> allHeaders[validHeaderIndexes[j]]]
        items == CsvRows(rows, bestDelimiter, headers, validHeaderIndexes, 2)
    IN  IF Len(rows) = 0 THEN EmptyResult
        ELSE [data |-> items,
              fields |-> headers,
              detectedFields |->
                  [h \in OwnKeys({ headers[j] : j \in 1..Len(headers) }) |->
                      CsvFieldInfo(items, h)]]

----------------------------------------------------------------------------
(* parseExcel, csv-parser.ts lines 140-300.  XLSX.read and sheet_to_json are  *)
(* library calls: what they give for the buffer is part of the file, either   *)
(* an exception with a message or the rows of the first sheet.                *)

\* String(v) for a cell value
JsString(v) == IF v.t = "number" THEN NatToString(v.n) ELSE v.s

\* cell !== null && cell !== ''   (lines 180, 211)
CellFilled(c) == ~(c.t = "null" \/ (c.t = "string" /\ c.s = <<>>))

HeaderScanLimit == 10

Min(a, b) == IF a < b THEN a ELSE b

\* HeaderRowIndex where every row of the sheet is scanned
HeaderRowIndexUnlimited(rawJson) ==
    LET cand == { j \in 1..Len(rawJson) :
                     \E c \in 1..Len(rawJson[j]) : CellFilled(rawJson[j][c]) }
    IN  IF cand = {} THEN 1 ELSE CHOOSE j \in cand : \A k \in cand : j <= k

\* lines 175-185: the (1-based) index of the header row
HeaderRowIndex(rawJson) ==
    LET cand == { j \in 1..Min(HeaderScanLimit, Len(rawJson)) :
                     \E c \in 1..Len(rawJson[j]) : CellFilled(rawJson[j][c]) }
    IN  IF cand = {} THEN 1 ELSE CHOOSE j \in cand : \A k \in cand : j <= k

\* lines 194-200: the column indexes of the headers that have a name
RECURSIVE ExcelHeaderIndexes(_, _)
ExcelHeaderIndexes(headerRow, j) ==
    IF j > Len(headerRow) THEN <<>>
    ELSE (IF IsEmptyValue(headerRow[j]) THEN <<>> ELSE <<j>>)
             \o ExcelHeaderIndexes(headerRow, j + 1)

\* lines 217-230: the item and emptyCount after the first j valid headers of a row
RECURSIVE ExcelItem(_, _, _, _)
ExcelItem(validHeaders, idx, row, j) ==
    IF j = 0 THEN [item |-> <<>>, emptyCount |-> 0]
    ELSE LET prev == ExcelItem(validHeaders, idx, row, j - 1)
         IN  IF idx[j] > Len(row) THEN prev
             ELSE IF IsEmptyValue(row[idx[j]])
                 THEN [item |-> prev.item, emptyCount |-> prev.emptyCount + 1]
             ELSE [item |-> Set(prev.item, validHeaders[j], row[idx[j]]),
                   emptyCount |-> prev.emptyCount]

\* lines 206-241: the records of rows j.. of the sheet
RECURSIVE ExcelRows(_, _, _, _)
ExcelRows(rawJson, validHeaders, idx, j) ==
    IF j > Len(rawJson) THEN <<>>
    ELSE LET row == rawJson[j]
             r == ExcelItem(validHeaders, idx, row, Len(validHeaders))
             skip == \/ Len(row) = 0
                     \/ \A c \in 1..Len(row) : ~CellFilled(row[c])
                     \/ 2 * r.emptyCount > Len(validHeaders)
                     \/ DOMAIN r.item = {}
         IN  (IF skip THEN <<>> ELSE <<r.item>>)
                 \o ExcelRows(rawJson, validHeaders, idx, j + 1)

\* word.charAt(0).toUpperCase() + word.slice(1).toLowerCase() on the model's words
TitleWord(w) ==
    CASE w = "unit" -> "Unit"
      [] w = "NAME" -> "Name"
      [] w = "phase" -> "Phase"
      [] OTHER -> w

\* lines 271-277: header.split(/[_\s]/).map(...).join(' ')
ExcelLabel(header) ==
    [j \in 1..Len(header) |->
        IF header[j] \in WhiteSpace \cup {"_"} THEN SP ELSE TitleWord(header[j])]

\* lines 249-284 for one header
ExcelFieldInfo(items, header) ==
    LET hits == { j \in 1..Len(items) : ~IsEmptyValue(Get(items[j], header)) }
    IN  IF hits = {} THEN [type |-> "string", label |-> ExcelLabel(header), example |-> Null]
        ELSE LET value == items[CHOOSE j \in hits : \A k \in hits : j <= k][header]
             IN  IF value.t = "number"
                 THEN [type |-> "number", label |-> ExcelLabel(header), example |-> value]
                 ELSE IF ~IsNaN(ToNumber(value.s)) /\ Trim(value.s) # <<>>
                 THEN [type |-> "number", label |-> ExcelLabel(header),
                       example |-> ToNumber(value.s)]
                 ELSE [type |-> "string", label |-> ExcelLabel(header), example |-> value]

\* lines 164-290, given what sheet_to_json(header: 1, raw, defval: null) returned
parseExcelRows(rawJson) ==
    LET headerRowIndex == HeaderRowIndex(rawJson)
        headerRow == rawJson[headerRowIndex]
        validHeaderIndexes == ExcelHeaderIndexes(headerRow, 1)
        validHeaders == [j \in 1..Len(validHeaderIndexes) |->
                            Trim(JsString(headerRow[validHeaderIndexes[j]]))]
        parsedData == ExcelRows(rawJson, validHeaders, validHeaderIndexes, headerRowIndex + 1)
    IN  IF Len(rawJson) = 0 THEN EmptyResult
        ELSE [data |-> parsedData,
              fields |-> validHeaders,
              detectedFields |->
                  [h \in OwnKeys({ validHeaders[j] : j \in 1..Len(validHeaders) }) |->
                      ExcelFieldInfo(parsedData, h)]]

\* the outcome of parseExcel for what the strict read gave: resolved with a result,
\* or rejected with 'Failed to parse Excel: <message>' (lines 291-297)
parseExcel(read) ==
    IF read.throws
    THEN [ok |-> FALSE, value |-> EmptyResult,
          message |-> <<"Failed to parse Excel: ">> \o read.message]
    ELSE [ok |-> TRUE, value |-> parseExcelRows(read.rows), message |-> <<>>]

----------------------------------------------------------------------------
(* parseExcelFallback, csv-parser.ts lines 454-519 *)

\* Object.keys of a row object of sheet_to_json(header: 'A'): its column letters
ColumnLetters == <<"A", "B", "C">>
RowKeys(row) == [j \in 1..Cardinality(DOMAIN row) |-> <<ColumnLetters[j]>>]

\* FallbackItem where the value of column A is stored under 'Unit Name'
FallbackItemNamed(headers, row) ==
    [h \in { IF headers[j] = <<"A">> THEN <<"Unit Name">> ELSE headers[j] :
                 j \in { k \in 1..Len(headers) :
                     headers[k] \in DOMAIN row /\ ~IsEmptyValue(row[headers[k]]) } } |->
        IF h = <<"Unit Name">> THEN row[<<"A">>] ELSE row[h]]

\* lines 487-495 for one row
FallbackItem(headers, row) ==
    [h \in { headers[j] : j \in { k \in 1..Len(headers) :
                 headers[k] \in DOMAIN row /\ ~IsEmptyValue(row[headers[k]]) } } |-> row[h]]

\* lines 481-514, given what sheet_to_json(header: 'A', defval: '') returned
parseExcelFallbackRows(json) ==
    LET headers == IF Len(json) > 0 THEN RowKeys(json[1]) ELSE <<>>
        items == [j \in 1..(Len(json) - 1) |-> FallbackItem(headers, json[j + 1])]
    IN  [data |-> IF Len(json) > 0 THEN items ELSE <<>>,
         fields |-> headers,
         detectedFields |->
             [h \in { headers[j] : j \in 1..Len(headers) } |->
                 [type |-> "string",
                  label |-> h,
                  example |-> IF Len(items) > 0 /\ ~Falsy(Get(items[1], h))
                              THEN items[1][h] ELSE Null]]]

\* resolved with a result, or rejected with 'Fallback Excel parsing failed: <message>'
parseExcelFallback(read) ==
    IF read.throws
    THEN [ok |-> FALSE, value |-> EmptyResult,
          message |-> <<"Fallback Excel parsing failed: ">> \o read.message]
    ELSE [ok |-> TRUE, value |-> parseExcelFallbackRows(read.rows), message |-> <<>>]

----------------------------------------------------------------------------
(* parseFile, csv-parser.ts lines 404-451 *)

\* String.prototype.toLowerCase / toUpperCase on the words of the model's file names
LowerWord(w) ==
    CASE w \in {"csv", "CSV", "Csv"} -> "csv"
      [] w \in {"xls", "XLS"} -> "xls"
      [] w \in {"xlsx", "XLSX"} -> "xlsx"
      [] w \in {"pdf", "PDF"} -> "pdf"
      [] OTHER -> w

UpperWord(w) ==
    CASE w \in {"csv", "CSV", "Csv"} -> "CSV"
      [] w \in {"xls", "XLS"} -> "XLS"
      [] w \in {"xlsx", "XLSX"} -> "XLSX"
      [] w \in {"pdf", "PDF"} -> "PDF"
      [] w = "data" -> "DATA"
      [] OTHER -> w

ToLowerCase(s) == [j \in 1..Len(s) |-> LowerWord(s[j])]
ToUpperCase(s) == [j \in 1..Len(s) |-> UpperWord(s[j])]

\* line 407: file.originalname.split('.').pop().toLowerCase() || ''
Extension(f) ==
    LET parts == Split(f.originalname, ".")
    IN  ToLowerCase(parts[Len(parts)])

\* the size guard with >= for >
TooLargeInclusive(f) == f.size >= 50 * 1024 * 1024

\* the dispatch with no branch for other extensions
IsExcelOrOther(ext) == ext # <<"csv">>

\* line 410: file.size > 50 * 1024 * 1024
MaxFileSize == 50 * 1024 * 1024
TooLarge(f) == f.size > MaxFileSize
FileTooLarge == <<"File too large (max 50MB)">>

IsCsv(ext) == ext = <<"csv">>
IsExcel(ext) == ext \in {<<"xls">>, <<"xlsx">>}

\* line 435
Unsupported(ext) == <<"Unsupported file extension: ">> \o ext

\* lines 445-449: the outer catch wraps the message of whatever it caught
FailedToParse(ext, message) ==
    <<"Failed to parse ">> \o ToUpperCase(ext) \o <<" file: ">> \o message

\* the TypeError of line 315
PushIsNotAFunction == <<"groupedByName[unitName].push is not a function">>

\* ---- the files the model uploads ----
FileNames ==
    { <<"data", ".", "csv">>, <<"data", ".", "CSV">>, <<"csv">>,
      <<"data", ".", "xlsx">>, <<"data", ".", "XLS">>,
      <<"data", ".", "pdf">>, <<"data", ".", "csv", ".", "PDF">>,
      <<"data">>, <<"data", ".">>, <<>> }

FileSizes == { 0, MaxFileSize - 1, MaxFileSize, MaxFileSize + 1 }

FileTexts ==
    { <<>>, <<SP>>, <<LF>>, <<SP, CR, LF, TAB>>,
      <<"Unit Name">>,
      <<"Unit Name", ",", "Phase", LF, "U1", ",", "A", CR, LF, "U1", ",", "B">>,
      <<"Unit Name", LF, "constructor">>,
      <<"Unit Name", ",", "__proto__", LF, "U1", ",", "x">> }

ReadErrors == { [throws |-> TRUE, message |-> <<m>>, rows |-> <<>>] : m \in {"E1", "E2"} }

\* what sheet_to_json(header: 1, defval: null) gives for the first sheet
StrictReads ==
    ReadErrors \cup
    { [throws |-> FALSE, message |-> <<>>, rows |-> r] :
        r \in { <<>>,
                << <<Str(<<"Unit Name">>), Str(<<"Unit Price">>)>>,
                   <<Str(<<"U1">>), Num(100)>>,
                   <<Str(<<"U1">>), Num(50)>> >> } }

\* what sheet_to_json(header: 'A', defval: '') gives for the first sheet
LenientReads ==
    ReadErrors \cup
    { [throws |-> FALSE, message |-> <<>>, rows |-> r] :
        r \in { <<>>,
                << (<<"A">> :> Str(<<"Unit Name">>)) @@ (<<"B">> :> Str(<<"Phase">>)),
                   (<<"A">> :> Str(<<"U1">>)) @@ (<<"B">> :> Str(<<>>)) >>,
                << (<<"A">> :> Str(<<"Unit Name">>)) >>,
                << (<<"A">> :> Str(<<"Unit Name">>)) @@ (<<"B">> :> Str(<<"Unit Price">>)),
                   (<<"A">> :> Str(<<"U1">>)) @@ (<<"B">> :> Str(<<"1", "0", "0">>)),
                   (<<"A">> :> Str(<<"U2">>)) @@ (<<"B">> :> Str(<<>>)) >> } }

Files ==
    [originalname : FileNames, size : FileSizes, text : FileTexts,
     strict : StrictReads, lenient : LenientReads]

MergeIdle ==
    /\ data = <<>>
    /\ groupedByName = <<>>
    /\ next = 1
    /\ keysLeft = <<>>
    /\ units = <<>>
    /\ mergedUnit = <<>>
    /\ i = 0
    /\ mergedUnits = <<>>
    /\ mpc = "idle"

FileInit ==
    /\ file \in Files
    /\ fpc = "start"
    /\ calls = <<>>
    /\ excelError = NoError
    /\ result = None
    /\ returned = None
    /\ thrown = NoError
    /\ MergeIdle
    /\ UploadIdle
    /\ SearchIdle

\* lines 410-413: the size guard throws, outside the try
RejectTooLarge ==
    /\ fpc = "start"
    /\ TooLarge(file)
    /\ thrown' = FileTooLarge
    /\ fpc' = "rejected"
    /\ UNCHANGED <<file, calls, excelError, result, returned>>
    /\ UNCHANGED mergeVars
    /\ UNCHANGED uploadVars
    /\ UNCHANGED searchVars

AcceptSize ==
    /\ fpc = "start"
    /\ ~TooLarge(file)
    /\ fpc' = "dispatch"
    /\ UNCHANGED <<file, calls, excelError, result, returned, thrown>>
    /\ UNCHANGED mergeVars
    /\ UNCHANGED uploadVars
    /\ UNCHANGED searchVars

\* lines 418-421
ParseCsv ==
    /\ fpc = "dispatch"
    /\ IsCsv(Extension(file))
    /\ calls' = Append(calls, "parseCSV")
    /\ result' = Some(parseCSV(file.text))
    /\ fpc' = "merge"
    /\ UNCHANGED <<file, excelError, returned, thrown>>
    /\ UNCHANGED mergeVars
    /\ UNCHANGED uploadVars
    /\ UNCHANGED searchVars

\* lines 422-424, parseExcel resolves
ParseExcelResolved ==
    /\ fpc = "dispatch"
    /\ ~IsCsv(Extension(file))
    /\ IsExcel(Extension(file))
    /\ parseExcel(file.strict).ok
    /\ calls' = Append(calls, "parseExcel")
    /\ result' = Some(parseExcel(file.strict).value)
    /\ fpc' = "merge"
    /\ UNCHANGED <<file, excelError, returned, thrown>>
    /\ UNCHANGED mergeVars
    /\ UNCHANGED uploadVars
    /\ UNCHANGED searchVars

\* parseExcel rejects and there is no fallback: the outer catch rethrows
ParseExcelRejectedNoFallback ==
    /\ fpc = "dispatch"
    /\ ~IsCsv(Extension(file))
    /\ IsExcel(Extension(file))
    /\ ~parseExcel(file.strict).ok
    /\ calls' = Append(calls, "parseExcel")
    /\ thrown' = FailedToParse(Extension(file), parseExcel(file.strict).message)
    /\ fpc' = "rejected"
    /\ UNCHANGED <<file, excelError, result, returned>>
    /\ UNCHANGED mergeVars
    /\ UNCHANGED uploadVars
    /\ UNCHANGED searchVars

\* lines 422-430, parseExcel rejects: the error is logged and the fallback is next
ParseExcelRejected ==
    /\ fpc = "dispatch"
    /\ ~IsCsv(Extension(file))
    /\ IsExcel(Extension(file))
    /\ ~parseExcel(file.strict).ok
    /\ calls' = Append(calls, "parseExcel")
    /\ excelError' = parseExcel(file.strict).message
    /\ fpc' = "fallback"
    /\ UNCHANGED <<file, result, returned, thrown>>
    /\ UNCHANGED mergeVars
    /\ UNCHANGED uploadVars
    /\ UNCHANGED searchVars

\* line 432, parseExcelFallback resolves
FallbackResolved ==
    /\ fpc = "fallback"
    /\ parseExcelFallback(file.lenient).ok
    /\ calls' = Append(calls, "parseExcelFallback")
    /\ result' = Some(parseExcelFallback(file.lenient).value)
    /\ fpc' = "merge"
    /\ UNCHANGED <<file, excelError, returned, thrown>>
    /\ UNCHANGED mergeVars
    /\ UNCHANGED uploadVars
    /\ UNCHANGED searchVars

\* line 432 and 445-449, parseExcelFallback rejects: the outer catch rethrows
FallbackRejected ==
    /\ fpc = "fallback"
    /\ ~parseExcelFallback(file.lenient).ok
    /\ calls' = Append(calls, "parseExcelFallback")
    /\ thrown' = FailedToParse(Extension(file), parseExcelFallback(file.lenient).message)
    /\ fpc' = "rejected"
    /\ UNCHANGED <<file, excelError, result, returned>>
    /\ UNCHANGED mergeVars
    /\ UNCHANGED uploadVars
    /\ UNCHANGED searchVars

\* lines 434-436 and 445-449
RejectUnsupported ==
    /\ fpc = "dispatch"
    /\ ~IsCsv(Extension(file))
    /\ ~IsExcel(Extension(file))
    /\ thrown' = FailedToParse(Extension(file), Unsupported(Extension(file)))
    /\ fpc' = "rejected"
    /\ UNCHANGED <<file, calls, excelError, result, returned>>
    /\ UNCHANGED mergeVars
    /\ UNCHANGED uploadVars
    /\ UNCHANGED searchVars

\* lines 439-444
MergeAndResolve ==
    /\ fpc = "merge"
    /\ ~mergeUnitsByName(result.value.data).err
    /\ calls' = Append(calls, "mergeUnitsByName")
    /\ returned' = Some([result.value EXCEPT !.data = mergeUnitsByName(result.value.data).value])
    /\ fpc' = "resolved"
    /\ UNCHANGED <<file, excelError, result, thrown>>
    /\ UNCHANGED mergeVars
    /\ UNCHANGED uploadVars
    /\ UNCHANGED searchVars

\* line 439 throws, lines 445-449
MergeThrows ==
    /\ fpc = "merge"
    /\ mergeUnitsByName(result.value.data).err
    /\ calls' = Append(calls, "mergeUnitsByName")
    /\ thrown' = FailedToParse(Extension(file), PushIsNotAFunction)
    /\ fpc' = "rejected"
    /\ UNCHANGED <<file, excelError, result, returned>>
    /\ UNCHANGED mergeVars
    /\ UNCHANGED uploadVars
    /\ UNCHANGED searchVars

FileNext ==
    \/ RejectTooLarge
    \/ AcceptSize
    \/ ParseCsv
    \/ ParseExcelResolved
    \/ ParseExcelRejected
    \/ FallbackResolved
    \/ FallbackRejected
    \/ RejectUnsupported
    \/ MergeAndResolve
    \/ MergeThrows

SpecFile == FileInit /\ [][FileNext]_vars

TypeOK ==
    /\ fpc \in {"idle", "start", "dispatch", "fallback", "merge", "resolved", "rejected"}
    /\ mpc \in {"idle", "group", "merge", "fold", "done", "error"}
    /\ (thrown # NoError) = (fpc = "rejected")
    /\ returned.set = (fpc = "resolved")

----------------------------------------------------------------------------
(* What the claims about parseFile speak of *)

Count(log, name) == Cardinality({ j \in 1..Len(log) : log[j] = name })

\* msg contains the text part
Contains(msg, part) ==
    \E j \in 0..(Len(msg) - Len(part)) : SubSeq(msg, j + 1, j + Len(part)) = part

Settled == fpc \in {"resolved", "rejected"}

ExcelFile == Extension(file) \in {<<"xls">>, <<"xlsx">>}
CsvFile == Extension(file) = <<"csv">>
SizeLimit == 50 * 1024 * 1024

\* parseExcel and then the fallback have both failed
BothFailed == fpc = "rejected" /\ Count(calls, "parseExcelFallback") > 0

\* C7 as claimed: the fallback runs exactly once after parseExcel fails, its result
\* is accepted when it succeeds, and when it fails too the error of parseFile
\* carries the cause of the first-stage parseExcel failure.
C7_CarriesFirstCause ==
    /\ Count(calls, "parseExcelFallback") <= 1
    /\ BothFailed => Contains(thrown, file.strict.message)

\* C7 as amended: the fallback runs exactly once, if and only if parseExcel failed;
\* its result is accepted when it succeeds; when it fails too, parseFile fails
\* with 'Failed to parse <EXT> file: Fallback Excel parsing failed: <cause of the
\* fallback failure>', the first-stage error having only been logged.
C7_FallbackOnce ==
    /\ Count(calls, "parseExcelFallback") <= 1
    /\ Count(calls, "parseExcel") <= 1
    /\ (Settled /\ ExcelFile /\ file.size <= SizeLimit) =>
          /\ Count(calls, "parseExcel") = 1
          /\ Count(calls, "parseExcelFallback") = (IF file.strict.throws THEN 1 ELSE 0)
    /\ (fpc = "resolved" /\ Count(calls, "parseExcelFallback") = 1) =>
          /\ ~file.lenient.throws
          /\ result = Some(parseExcelFallbackRows(file.lenient.rows))
          /\ returned.value.fields = result.value.fields
          /\ returned.value.detectedFields = result.value.detectedFields
    /\ BothFailed =>
          /\ file.strict.throws /\ file.lenient.throws
          /\ thrown = <<"Failed to parse ">> \o ToUpperCase(Extension(file)) \o <<" file: ">>
                         \o <<"Fallback Excel parsing failed: ">> \o file.lenient.message
          /\ excelError = <<"Failed to parse Excel: ">> \o file.strict.message

\* parseExcel and the fallback have failed with different causes
C7_Witness ==
    /\ BothFailed
    /\ file.strict.message # file.lenient.message
    /\ Contains(thrown, file.lenient.message)

\* the fallback succeeded after parseExcel failed and parseFile resolved
C7_WitnessAccepted ==
    /\ fpc = "resolved"
    /\ file.strict.throws
    /\ returned.value.fields = <<<<"A">>, <<"B">>>>

UnsupportedFile == ~CsvFile /\ ~ExcelFile

\* C8 as claimed: a file whose extension is not csv, xls or xlsx fails with the
\* unsupported-format error and no parser, fallback or merger is invoked.
C8_UnsupportedError ==
    UnsupportedFile =>
        /\ calls = <<>>
        /\ fpc \in {"start", "dispatch", "rejected"}
        /\ fpc = "rejected" => Contains(thrown, <<"Unsupported file extension: ">>)

\* C8 as amended: such a file is always rejected without any parser, fallback or
\* merger being invoked; with the unsupported-format error when its declared size
\* is at most 50 MiB, and with the too-large error when it is larger.
C8_UnsupportedRejected ==
    UnsupportedFile =>
        /\ calls = <<>>
        /\ fpc \in {"start", "dispatch", "rejected"}
        /\ fpc = "dispatch" => ENABLED RejectUnsupported
        /\ fpc = "rejected" =>
              IF file.size > SizeLimit
              THEN thrown = <<"File too large (max 50MB)">>
              ELSE thrown = <<"Failed to parse ">> \o ToUpperCase(Extension(file))
                               \o <<" file: ">> \o <<"Unsupported file extension: ">>
                               \o Extension(file)

\* a .pdf within the size limit has been rejected as unsupported
C8_Witness ==
    /\ fpc = "rejected"
    /\ file.originalname = <<"data", ".", "pdf">>
    /\ thrown = <<"Failed to parse ", "PDF", " file: ", "Unsupported file extension: ", "pdf">>

\* C9: parseFile fails with the too-large error if and only if the declared size
\* is strictly greater than 50 MiB, and then before any parser, fallback or merger
\* is invoked, whatever the extension.
C9_TooLargeIff ==
    fpc # "start" =>
        /\ (thrown = <<"File too large (max 50MB)">>) = (file.size > SizeLimit)
        /\ file.size > SizeLimit => (fpc = "rejected" /\ calls = <<>>)
        /\ file.size <= SizeLimit => ~Contains(thrown, <<"File too large (max 50MB)">>)

\* a file of 50 MiB + 1 bytes has been rejected
C9_Witness ==
    /\ fpc = "rejected"
    /\ file.size = SizeLimit + 1
    /\ thrown = <<"File too large (max 50MB)">>

\* a csv file of exactly 50 MiB has been parsed
C9_WitnessAtLimit ==
    /\ fpc = "resolved"
    /\ file.size = SizeLimit
    /\ CsvFile

BlankText(s) == \A j \in 1..Len(s) : s[j] \in {SP, TAB, CR, LF}

\* C10: for a csv file (within the size limit) whose text is empty or only white
\* space, parseCSV returns data = [], fields = [], detectedFields = {} and
\* parseFile resolves with the same empty result; nothing is thrown.
C10_EmptyInputIsEmptyResult ==
    (CsvFile /\ BlankText(file.text) /\ file.size <= SizeLimit) =>
        /\ fpc = "merge" =>
              result = Some([data |-> <<>>, fields |-> <<>>, detectedFields |-> <<>>])
        /\ Settled =>
              /\ fpc = "resolved"
              /\ thrown = <<>>
              /\ returned = Some([data |-> <<>>, fields |-> <<>>, detectedFields |-> <<>>])

\* a white-space-only csv file has been parsed
C10_Witness ==
    /\ fpc = "resolved"
    /\ CsvFile
    /\ file.text = <<SP, CR, LF, TAB>>
    /\ returned.value.fields = <<>>

----------------------------------------------------------------------------
(* parseFile on a .csv upload: the texts the model parses *)

MaxLineLen == 4
MaxCells == 4

\* the strings of length 1..n over the symbols of S
RECURSIVE Strings(_, _)
Strings(S, n) ==
    IF n = 0 THEN {}
    ELSE { <<c>> : c \in S } \cup { s \o <<c>> : s \in Strings(S, n - 1), c \in S }

\* cells.join(d)
RECURSIVE Join(_, _)
Join(cells, d) ==
    IF Len(cells) = 0 THEN <<>>
    ELSE IF Len(cells) = 1 THEN cells[1]
    ELSE cells[1] \o <<d>> \o Join(Tail(cells), d)

\* header-only files over one word and the four candidate delimiters
SniffTexts ==
    Strings({"a", ",", ";", TAB, "|"}, MaxLineLen)
        \cup { <<"a", ",", "b", ";", "c", ",", "d", ",", "e">> }

\* header rows with empty, placeholder and repeated names
TableHeaders ==
    { <<"Unit Name", ",", ",", "Column", "2", ",", "Price">>,
      <<"Unit Name", ",", "Phase">>,
      <<"Phase", ",", "Phase">>,
      <<"Unit Name", ";", "Phase", ";", "Phase">>,
      <<"Column", ",", "Price", ",", SP>> }

PlainCells == { <<>>, <<"x">>, <<"y">>, <<SP>> }

\* the cells of a row, joined by the delimiter of the header row
RowsOf(header, cellRows) ==
    { Join(r, IF \E j \in 1..Len(header) : header[j] = ";" THEN ";" ELSE ",") : r \in cellRows }

LastLines == { <<>>, <<LF>>, <<LF, "z">>, <<CR, LF, SP, CR, LF, "z", ",", SP>> }

TableTexts ==
    UNION { { h \o <<LF>> \o r \o l : r \in RowsOf(h, SeqsUpTo(PlainCells, MaxCells)), l \in LastLines } :
            h \in TableHeaders }

\* cells with quotes, numbers and white space
RichCells ==
    { <<>>, <<"x">>, <<SP>>, <<DQ, "x", DQ>>, <<SQ, "x", SQ>>, <<DQ, "x", SQ>>, <<DQ, DQ>>,
      <<DQ, SP, DQ>>, <<DQ, DQ, "x", DQ, DQ>>, <<DQ, "x", ",", "y", DQ>>, <<DQ, "x">>,
      <<"1", "2", "0", "0">>, <<SP, "7", SP>>, <<"-", "5">>, <<"Infinity">>, <<"North Wing">> }

QuotedHeaders ==
    { <<"Unit Name", ",", "Price">>,
      <<DQ, "Unit Name", DQ, ",", SQ, "Price", DQ>>,
      <<DQ, "Unit Name", ",", SQ, SQ>> }

ValueTexts ==
    { h \o <<LF, "U1", ",">> \o c1 \o <<LF, "U2", ",">> \o c2 :
        h \in QuotedHeaders, c1 \in RichCells, c2 \in RichCells }

\* the values of a summable field in two rows of one unit
PriceCells == { <<>>, <<"1", "0", "0">>, <<"5", "0">>, <<"x">> }

MergeTexts ==
    { <<"Unit Name", ",", "Unit Price", LF, "U1", ",">> \o c1 \o <<LF, "U1", ",">> \o c2 :
        c1 \in PriceCells, c2 \in PriceCells }

CsvTexts ==
    SniffTexts \cup TableTexts \cup ValueTexts \cup MergeTexts
        \cup { <<>>, <<"Unit Name", LF, "constructor">> }

CsvFiles ==
    [originalname : { <<"data", ".", "csv">> }, size : { 0 }, text : CsvTexts,
     strict : { NoRead }, lenient : { NoRead }]

CsvInit ==
    /\ file \in CsvFiles
    /\ fpc = "start"
    /\ calls = <<>>
    /\ excelError = NoError
    /\ result = None
    /\ returned = None
    /\ thrown = NoError
    /\ MergeIdle
    /\ UploadIdle
    /\ SearchIdle

CsvNext ==
    \/ AcceptSize
    \/ ParseCsv
    \/ MergeAndResolve
    \/ MergeThrows

SpecCsv == CsvInit /\ [][CsvNext]_vars

----------------------------------------------------------------------------
(* What the claims about parseCSV speak of *)

\* the state right after parseCSV has returned
CsvParsed == fpc = "merge" /\ Count(calls, "parseCSV") > 0

\* the first line of the trimmed text, without its line break
FirstLine(s) ==
    LET t == Trim(s)
        breaks == { j \in 1..Len(t) : t[j] = LF }
        k == IF breaks = {} THEN Len(t) + 1 ELSE CHOOSE j \in breaks : \A l \in breaks : j <= l
        e == IF k <= Len(t) /\ k > 1 /\ t[k - 1] = CR THEN k - 2 ELSE k - 1
    IN  SubSeq(t, 1, e)

\* the number of fields a line has under the delimiter d
FieldCount(line, d) == Cardinality({ j \in 1..Len(line) : line[j] = d }) + 1

\* the place of a candidate in the list of candidates
Rank(d) == CHOOSE j \in 1..Len(possibleDelimiters) : possibleDelimiters[j] = d

Candidates == { possibleDelimiters[j] : j \in 1..Len(possibleDelimiters) }

\* d splits the line into the most fields, and no earlier candidate splits it into as many
Wins(line, d) ==
    \A e \in Candidates :
        \/ FieldCount(line, d) > FieldCount(line, e)
        \/ FieldCount(line, d) = FieldCount(line, e) /\ Rank(d) <= Rank(e)

\* the header cells of a line under the delimiter d, cleaned, the valid ones only
HeadersUnder(line, d) ==
    LET cells == Split(line, d)
        idx == ValidHeaderIndexes([j \in 1..Len(cells) |-> CleanHeader(cells[j])], 1)
    IN  [j \in 1..Len(idx) |-> CleanHeader(cells[idx[j]])]

\* C11: the delimiter parseCSV chooses is the candidate, among ',', ';', tab and '|'
\* in that order, that splits the first line into the most fields; on a tie the
\* earliest candidate wins (comma when all tie); the fields of the result are the
\* header cells under that delimiter.
C11_SniffsMostFieldsEarliestTie ==
    CsvParsed =>
        LET line == FirstLine(file.text)
        IN  \E d \in Candidates :
                /\ Wins(line, d)
                /\ BestDelimiter(line) = d
                /\ result.value.fields = HeadersUnder(line, d)
                /\ (\A e \in Candidates : FieldCount(line, e) = FieldCount(line, ","))
                       => d = ","

\* parseCSV has chosen between two candidates that tie, and neither is the comma
C11_Witness ==
    /\ CsvParsed
    /\ FieldCount(FirstLine(file.text), ";") = 2
    /\ FieldCount(FirstLine(file.text), "|") = 2
    /\ FieldCount(FirstLine(file.text), ",") = 1
    /\ result.value.fields = << <<"a">>, <<"|", "a">> >>

\* parseCSV has read the header line a,b;c,d,e with the comma
C11_WitnessExample ==
    /\ CsvParsed
    /\ file.text = <<"a", ",", "b", ";", "c", ",", "d", ",", "e">>
    /\ result.value.fields = << <<"a">>, <<"b", ";", "c">>, <<"d">>, <<"e">> >>

\* ---- the table a CSV text holds, read off the text ----

\* an auto-generated placeholder name: it starts with 'Column'
IsPlaceholder(h) == h # <<>> /\ Head(h) = "Column"

\* the elements of a set of numbers, ascending
RECURSIVE Ascending(_)
Ascending(S) ==
    IF S = {} THEN <<>>
    ELSE LET m == CHOOSE x \in S : \A y \in S : x <= y
         IN  <<m>> \o Ascending(S \ {m})

\* the cells of a line at the delimiter d, each trimmed, padded with '' up to n
\* columns; a blank line has no cells but the padding
RawCellsOf(line, d, n) ==
    LET cells == Split(Trim(line), d)
    IN  [j \in 1..n |-> IF Trim(line) # <<>> /\ j <= Len(cells) THEN Trim(cells[j]) ELSE <<>>]

\* the same cells without their quotes
CellsOf(line, d, n) == [j \in 1..n |-> StripQuotes(RawCellsOf(line, d, n)[j])]

\* header: the cells of the first line; kept: the columns whose header is neither
\* empty nor a placeholder; rows: the cells of the lines after the first that
\* have a populated cell under a kept column; headerRaw and raw: the same cells
\* before their quotes are removed
Table(s) ==
    LET line == FirstLine(s)
        d == BestDelimiter(line)
        header == CellsOf(line, d, Len(Split(line, d)))
        kept == { j \in 1..Len(header) : header[j] # <<>> /\ ~IsPlaceholder(header[j]) }
        lines == Tail(SplitLines(Trim(s)))
        all == [k \in 1..Len(lines) |-> CellsOf(lines[k], d, Len(header))]
        emitted == Ascending({ k \in 1..Len(lines) : \E j \in kept : all[k][j] # <<>> })
    IN  [header |-> header,
         headerRaw |-> RawCellsOf(line, d, Len(header)),
         kept |-> kept,
         rows |-> [m \in 1..Len(emitted) |-> all[emitted[m]]],
         raw |-> [m \in 1..Len(emitted) |-> RawCellsOf(lines[emitted[m]], d, Len(header))]]

\* C12: headers that are empty or placeholders are excluded from fields, and for
\* every remaining header the value in a record is the cell at that header's
\* original column index in the row: skipping headers never shifts values.
C12_ColumnsKeepTheirIndex ==
    CsvParsed =>
        LET tb == Table(file.text)
            cols == Ascending(tb.kept)
        IN  /\ result.value.fields = [k \in 1..Len(cols) |-> tb.header[cols[k]]]
            /\ Len(result.value.data) = Len(tb.rows)
            /\ \A k \in 1..Len(result.value.data) :
               \A j \in tb.kept :
                   (\A l \in tb.kept : tb.header[l] = tb.header[j] => l = j) =>
                       Get(result.value.data[k], tb.header[j]) =
                           IF tb.rows[k][j] # <<>> THEN Str(tb.rows[k][j]) ELSE Undefined

\* the header row [Unit Name, '', Column2, Price] has given the fields
\* [Unit Name, Price], and the row x,y,y,x a record read from columns 0 and 3
C12_Witness ==
    /\ CsvParsed
    /\ file.text = <<"Unit Name", ",", ",", "Column", "2", ",", "Price", LF,
                     "x", ",", "y", ",", "y", ",", "x">>
    /\ result.value.fields = << <<"Unit Name">>, <<"Price">> >>
    /\ Table(file.text).kept = {1, 4}
    /\ result.value.data =
           << (<<"Unit Name">> :> Str(<<"x">>)) @@ (<<"Price">> :> Str(<<"x">>)) >>

\* C15: every record parseCSV emits has at least one field and no field whose
\* value is the empty string; a field is present exactly when a column carrying
\* its name has, in that row, a cell that is in range and not empty after
\* trimming; blank lines and rows with no populated field produce no record.
C15_OnlyPopulatedValues ==
    CsvParsed =>
        LET tb == Table(file.text)
        IN  /\ Len(result.value.data) = Len(tb.rows)
            /\ \A k \in 1..Len(result.value.data) :
                   /\ DOMAIN result.value.data[k] # {}
                   /\ \A h \in DOMAIN result.value.data[k] :
                          /\ result.value.data[k][h].t = "string"
                          /\ result.value.data[k][h].s # <<>>
                   /\ DOMAIN result.value.data[k] =
                          { tb.header[j] : j \in { l \in tb.kept : tb.rows[k][l] # <<>> } }

\* a file with a row of empty cells, a blank line and a row whose second cell is
\* empty after trimming has given one record, with one field
C15_Witness ==
    /\ CsvParsed
    /\ file.text = <<"Unit Name", ",", "Phase", LF, SP, ",", CR, LF, SP, CR, LF, "z", ",", SP>>
    /\ result.value.data = << (<<"Unit Name">> :> Str(<<"z">>)) >>

\* the kept columns that carry the same name as the kept column j
SameName(tb, j) == { l \in tb.kept : tb.header[l] = tb.header[j] }

\* the largest element of a non-empty set of numbers
Last(S) == CHOOSE x \in S : \A y \in S : y <= x

\* every kept column is listed in fields, a repeated name once per column
FieldsKeepDuplicates(tb) ==
    /\ Len(result.value.fields) = Cardinality(tb.kept)
    /\ \A j \in tb.kept :
           Cardinality({ k \in 1..Len(result.value.fields) : result.value.fields[k] = tb.header[j] })
               = Cardinality(SameName(tb, j))

\* C16 as claimed: duplicate header names are kept in fields, and in every record
\* the value stored under a duplicated name is the value of the last (rightmost)
\* column carrying that name.
C16_LastColumnWins ==
    CsvParsed =>
        LET tb == Table(file.text)
        IN  /\ FieldsKeepDuplicates(tb)
            /\ \A k \in 1..Len(result.value.data) :
               \A j \in tb.kept :
                   Cardinality(SameName(tb, j)) > 1 =>
                       Get(result.value.data[k], tb.header[j]) =
                           IF tb.rows[k][Last(SameName(tb, j))] # <<>>
                           THEN Str(tb.rows[k][Last(SameName(tb, j))])
                           ELSE Undefined

\* C16 amended: duplicate header names are kept in fields, and in every record
\* the value stored under a duplicated name is the value of the last column
\* carrying that name whose cell in the row is not empty; the name is absent
\* only when all of its columns are empty in the row.
C16_LastPopulatedColumnWins ==
    CsvParsed =>
        LET tb == Table(file.text)
        IN  /\ FieldsKeepDuplicates(tb)
            /\ \A k \in 1..Len(result.value.data) :
               \A j \in tb.kept :
                   Cardinality(SameName(tb, j)) > 1 =>
                       LET filled == { l \in SameName(tb, j) : tb.rows[k][l] # <<>> }
                       IN  Get(result.value.data[k], tb.header[j]) =
                               IF filled # {} THEN Str(tb.rows[k][Last(filled)]) ELSE Undefined

\* the header row Phase,Phase and the row x,y have given fields [Phase, Phase]
\* and a record whose Phase is the second cell
C16_Witness ==
    /\ CsvParsed
    /\ file.text = <<"Phase", ",", "Phase", LF, "x", ",", "y">>
    /\ result.value.fields = << <<"Phase">>, <<"Phase">> >>
    /\ result.value.data = << (<<"Phase">> :> Str(<<"y">>)) >>

\* the row x, (second cell empty) has given a record whose Phase is the first cell
C16_WitnessEmptyLast ==
    /\ CsvParsed
    /\ file.text = <<"Phase", ",", "Phase", LF, "x", ",">>
    /\ result.value.data = << (<<"Phase">> :> Str(<<"x">>)) >>

\* the cell starts and ends with the same quote character
SameQuotes(c) == Len(c) >= 2 /\ c[1] \in Quotes /\ c[Len(c)] = c[1]

\* the cell without its first and last character
Inner(c) == SubSeq(c, 2, Len(c) - 1)

\* cleaned is the trimmed cell c, or c without one layer of matching quotes
MatchingLayerOnly(c, cleaned) == cleaned = c \/ (SameQuotes(c) /\ cleaned = Inner(c))

\* C17: after splitting on the delimiter (which is not quote-aware: a line has one
\* cell more than it has delimiters, quoted or not), a header or value cell loses
\* exactly one layer of surrounding quotes, and only when it starts and ends with
\* the same quote character.
C17_StripsMatchingQuotesOnly ==
    CsvParsed =>
        LET tb == Table(file.text)
            cols == Ascending(tb.kept)
        IN  /\ Len(tb.header) = FieldCount(FirstLine(file.text), BestDelimiter(FirstLine(file.text)))
            /\ \A m \in 1..Len(cols) :
                   MatchingLayerOnly(tb.headerRaw[cols[m]], result.value.fields[m])
            /\ \A k \in 1..Len(result.value.data) :
               \A j \in tb.kept :
                   /\ (\A l \in tb.kept : tb.header[l] = tb.header[j] => l = j)
                   /\ tb.header[j] \in DOMAIN result.value.data[k]
                   => MatchingLayerOnly(tb.raw[k][j], result.value.data[k][tb.header[j]].s)

\* the trimmed string u is a decimal numeral: an optional sign and digits
IsFiniteNumeral(u) ==
    /\ u # <<>>
    /\ LET body == IF Head(u) \in {"+", "-"} THEN Tail(u) ELSE u
       IN  body # <<>> /\ \A j \in 1..Len(body) : body[j] \in DigitSyms

\* the number a decimal numeral denotes
NumeralValue(u) ==
    IF Head(u) = "-" THEN 0 - StrToNat(Tail(u))
    ELSE IF Head(u) = "+" THEN StrToNat(Tail(u))
    ELSE StrToNat(u)

\* the records, in order, that have a non-empty value for the field h
RecordsWith(d, h) == SelectSeq(d, LAMBDA r : ~IsEmptyValue(Get(r, h)))

\* C14: for every field the detected type is decided only by the first record,
\* in order, that has a non-empty value for it; the type is 'number' if and only
\* if the whole trimmed string form of that value parses as a finite number, and
\* then example is that number; otherwise the type is 'string' and example is
\* that first value verbatim.
C14_TypeFromFirstValue ==
    CsvParsed =>
        \A h \in DOMAIN result.value.detectedFields :
            LET with == RecordsWith(result.value.data, h)
                info == result.value.detectedFields[h]
            IN  with # <<>> =>
                    IF IsFiniteNumeral(Trim(with[1][h].s))
                    THEN info.type = "number" /\ info.example = Num(NumeralValue(Trim(with[1][h].s)))
                    ELSE info.type = "string" /\ info.example = with[1][h]

----------------------------------------------------------------------------
(* parseFile on an .xlsx upload: the sheets the model parses *)

MaxColumns == 6
MaxLeadingRows == 11

HeaderNames ==
    <<"Unit Name", "Unit Price", "Floor", "Phase", "Area", "View", "Status", "Notes">>

\* a header row that names every one of its MaxColumns columns
WideHeader == [j \in 1..MaxColumns |-> Str(<<HeaderNames[j]>>)]

\* a header row with a column that has no name
GapHeader == <<Str(<<"Unit Name">>), Null, Str(<<"Phase">>)>>

SheetCells == { Null, Str(<<>>), Str(<<"v">>) }

\* the rows of exactly n cells
RowsOfWidth(n) == [1..n -> SheetCells]

\* one data row under the wide header, as wide as the header or shorter, and
\* one data row under the header with the unnamed column
SparseSheets ==
    { <<WideHeader, r>> : r \in UNION { RowsOfWidth(n) : n \in 1..MaxColumns } }
        \cup { <<GapHeader, r>> : r \in RowsOfWidth(3) }

\* k rows without a filled cell, all of the same kind
BlankRows(k, row) == [j \in 1..k |-> row]

SheetBodies ==
    { << <<Str(<<"Unit Name">>), Str(<<"Phase">>)>> >> \o d :
        d \in SeqsUpTo({ <<Str(<<"U1">>), Str(<<"A">>)>>,
                         <<Null, Str(<<>>)>>,
                         <<Str(<<"U2">>), Null>> }, 2) }

\* a header row and up to two data rows below 0..MaxLeadingRows blank rows
LeadingSheets ==
    { BlankRows(k, row) \o b :
        k \in 0..MaxLeadingRows,
        row \in { <<>>, <<Null, Null>>, <<Str(<<>>), Null>> },
        b \in SheetBodies }

ExcelSheets == SparseSheets \cup LeadingSheets

ExcelFiles ==
    [originalname : { <<"data", ".", "xlsx">> }, size : { 0 }, text : { <<>> },
     strict : { [throws |-> FALSE, message |-> <<>>, rows |-> r] : r \in ExcelSheets },
     lenient : { NoRead }]

ExcelInit ==
    /\ file \in ExcelFiles
    /\ fpc = "start"
    /\ calls = <<>>
    /\ excelError = NoError
    /\ result = None
    /\ returned = None
    /\ thrown = NoError
    /\ MergeIdle
    /\ UploadIdle
    /\ SearchIdle

ExcelNext ==
    \/ AcceptSize
    \/ ParseExcelResolved
    \/ MergeAndResolve

SpecExcel == ExcelInit /\ [][ExcelNext]_vars

----------------------------------------------------------------------------
(* What the claims about parseExcel speak of *)

\* the state right after parseExcel has resolved
ExcelParsed == fpc = "merge" /\ Count(calls, "parseExcel") > 0

\* a cell that is neither null nor ''
Filled(c) == c # Null /\ c # Str(<<>>)

HasFilledCell(row) == \E c \in 1..Len(row) : Filled(row[c])

\* the first of the first ten rows that has a filled cell; 0 when there is none
FirstFilledRow(rows) ==
    LET cand == { j \in 1..Len(rows) : j <= 10 /\ HasFilledCell(rows[j]) }
    IN  IF cand = {} THEN 0 ELSE CHOOSE j \in cand : \A k \in cand : j <= k

\* the columns the header row names
Mapped(headerRow) == { j \in 1..Len(headerRow) : Filled(headerRow[j]) }

\* the record of a row: every named column whose cell is filled
RecordOf(headerRow, row) ==
    [h \in { headerRow[j].s : j \in { l \in Mapped(headerRow) : l <= Len(row) /\ Filled(row[l]) } } |->
        row[CHOOSE j \in Mapped(headerRow) : headerRow[j].s = h]]

\* the mapped fields of a row that are empty: null, '', or beyond the end of the row
EmptyMapped(headerRow, row) ==
    { j \in Mapped(headerRow) : j > Len(row) \/ ~Filled(row[j]) }

\* strictly more than half of the mapped fields of the row are empty
Sparse(headerRow, row) == 2 * Cardinality(EmptyMapped(headerRow, row)) > Cardinality(Mapped(headerRow))

\* the rows after row h
RowsAfter(rows, h) == SubSeq(rows, h + 1, Len(rows))

RECURSIVE IsSubsequence(_, _)
IsSubsequence(a, b) ==
    IF a = <<>> THEN TRUE
    ELSE IF b = <<>> THEN FALSE
    ELSE IF Head(a) = Head(b) THEN IsSubsequence(Tail(a), Tail(b))
    ELSE IsSubsequence(a, Tail(b))

\* every named column of the header row has a filled cell in the row
Dense(headerRow, row) == EmptyMapped(headerRow, row) = {}

\* C20: the header row is the first row, among at most the first 10 rows of the
\* sheet, that has a non-null, non-empty cell: fields are its names; the data rows
\* are the rows after it: every record comes from one of them, in order, and a
\* row after it with all its named cells filled is a record; no row before it is
\* emitted.  With no such row among the first 10 there are no fields or records.
C20_HeaderIsFirstFilledRow ==
    ExcelParsed =>
        LET rows == file.strict.rows
            h == FirstFilledRow(rows)
        IN  IF h = 0
            THEN result.value.fields = <<>> /\ result.value.data = <<>>
            ELSE LET cols == Ascending(Mapped(rows[h]))
                     after == RowsAfter(rows, h)
                 IN  /\ result.value.fields = [k \in 1..Len(cols) |-> Trim(rows[h][cols[k]].s)]
                     /\ IsSubsequence(result.value.data,
                                      [k \in 1..Len(after) |-> RecordOf(rows[h], after[k])])
                     /\ Len(result.value.data) >=
                            Cardinality({ k \in 1..Len(after) : Dense(rows[h], after[k]) })

\* the header row was the tenth row of the sheet, below nine rows of nulls, and
\* the row after it is the only record
C20_Witness ==
    /\ ExcelParsed
    /\ file.strict.rows =
           BlankRows(9, <<Null, Null>>)
               \o << <<Str(<<"Unit Name">>), Str(<<"Phase">>)>>, <<Str(<<"U1">>), Str(<<"A">>)>> >>
    /\ result.value.fields = << <<"Unit Name">>, <<"Phase">> >>
    /\ result.value.data = << (<<"Unit Name">> :> Str(<<"U1">>)) @@ (<<"Phase">> :> Str(<<"A">>)) >>

\* the first filled row was the eleventh: nothing is emitted
C20_WitnessBeyondLimit ==
    /\ ExcelParsed
    /\ Len(file.strict.rows) > 10
    /\ FirstFilledRow(file.strict.rows) = 0
    /\ HasFilledCell(file.strict.rows[11])
    /\ result.value.data = <<>>

----------------------------------------------------------------------------
(* More about mergeUnitsByName *)

\* both the accumulator and the incoming record have a non-empty value for key
BothPresent(key) ==
    ~IsEmptyValue(Get(mergedUnit, key)) /\ ~IsEmptyValue(Get(units[i], key))

\* one of the two values is a number and the other a string
MixedTypes(key) == Get(mergedUnit, key).t # Get(units[i], key).t

\* C19 as claimed: when both the accumulator and the incoming record have a
\* non-empty value for a field and the two values are identical, or are of
\* different types, the accumulator's value is kept unchanged, whether or not the
\* field is in the summable allow-list.
C19_StepKeepsIdenticalOrMixed ==
    Folding =>
        \A key \in DOMAIN units[i] :
            (BothPresent(key) /\ (mergedUnit[key] = units[i][key] \/ MixedTypes(key)))
                => mergedUnit'[key] = mergedUnit[key]

C19_IdenticalOrMixedKept == [][C19_StepKeepsIdenticalOrMixed]_vars

\* C19 amended: the accumulator's value is kept when the two values are of
\* different types, when they are identical strings, and when they are identical
\* numbers of a field outside the allow-list; two identical numbers of an
\* allow-listed field are summed like any other two numbers.
C19_StepKeepsUnlessSummable ==
    Folding =>
        \A key \in DOMAIN units[i] :
            BothPresent(key) =>
                /\ MixedTypes(key) => mergedUnit'[key] = mergedUnit[key]
                /\ (mergedUnit[key] = units[i][key] /\ mergedUnit[key].t = "string")
                       => mergedUnit'[key] = mergedUnit[key]
                /\ (mergedUnit[key] = units[i][key] /\ mergedUnit[key].t = "number"
                        /\ key \notin fieldsToSum)
                       => mergedUnit'[key] = mergedUnit[key]
                /\ (mergedUnit[key] = units[i][key] /\ mergedUnit[key].t = "number"
                        /\ key \in fieldsToSum)
                       => mergedUnit'[key] = Num(mergedUnit[key].n + mergedUnit[key].n)

C19_KeptUnlessSummableNumbers == [][C19_StepKeepsUnlessSummable]_vars

\* Unit Price 100 then 'A' under one Unit Name have merged to 100, and the
\* repeated Unit Name has stayed as it was
C19_Witness ==
    /\ mpc = "done"
    /\ \E j \in 1..Len(mergedUnits) :
          /\ Get(mergedUnits[j], UnitPriceKey) = Num(100)
          /\ Get(mergedUnits[j], UnitNameKey) = Str(<<"U1">>)
          /\ PresentValues(GroupOf(data, GroupKey(mergedUnits[j])), UnitPriceKey)
                = <<Num(100), Str(<<"A">>)>>

\* Unit Price 100 twice under one Unit Name has merged to 200
C19_WitnessIdenticalSummed ==
    /\ mpc = "done"
    /\ \E j \in 1..Len(mergedUnits) :
          /\ Get(mergedUnits[j], UnitPriceKey) = Num(200)
          /\ PresentValues(GroupOf(data, GroupKey(mergedUnits[j])), UnitPriceKey)
                = <<Num(100), Num(100)>>

----------------------------------------------------------------------------
(* UploadController.uploadFile: src/src/controllers/upload.controller.ts     *)
(* awaits its four calls one after the other ("sequential"); the version of  *)
(* src/unnamed/part_001 awaits them in two Promise.all pairs ("concurrent"). *)
(* The parseFile call is the state machine above, started by the controller. *)

\* the FileInterceptor limit of both controllers
MaxUploadSize == 1048576

UploadFiles ==
    [originalname : { <<"data", ".", "csv">>, <<"data", ".", "xlsx">>, <<"data", ".", "pdf">> },
     size : { 0, MaxUploadSize },
     text : { <<>>,
              <<"Unit Name", ",", "Phase", LF, "U1", ",", "A", CR, LF, "U1", ",", "B">>,
              <<"Unit Name", LF, "constructor">> },
     strict : { [throws |-> TRUE, message |-> <<"E1">>, rows |-> <<>>],
                [throws |-> FALSE, message |-> <<>>,
                 rows |-> << <<Str(<<"Unit Name">>), Str(<<"Unit Price">>)>>,
                             <<Str(<<"U1">>), Num(100)>>,
                             <<Str(<<"U1">>), Num(50)>> >>] },
     lenient : { [throws |-> TRUE, message |-> <<"E2">>, rows |-> <<>>],
                 [throws |-> FALSE, message |-> <<>>, rows |-> <<>>] }]

UploadInit ==
    /\ controller \in {"sequential", "concurrent"}
    /\ hasFile \in BOOLEAN
    /\ file \in IF hasFile THEN UploadFiles ELSE { NoFile }
    /\ fpc = "idle"
    /\ calls = <<>>
    /\ excelError = NoError
    /\ result = None
    /\ returned = None
    /\ thrown = NoError
    /\ upc = "start"
    /\ upload = "none"
    /\ storeCall = NoCall
    /\ indexCall = NoCall
    /\ MergeIdle
    /\ SearchIdle

\* if (!file) throw new BadRequestException('No file uploaded')
NoFileUploaded ==
    /\ upc = "start"
    /\ ~hasFile
    /\ upc' = "badRequest"
    /\ UNCHANGED <<controller, hasFile, upload, storeCall, indexCall>>
    /\ UNCHANGED fileVars
    /\ UNCHANGED mergeVars
    /\ UNCHANGED searchVars

\* ---- the services, as the controller sees them ----

\* fileStorageService.uploadFile resolves with the path
StorageResolves ==
    /\ upload = "pending"
    /\ upload' = "ok"
    /\ UNCHANGED <<controller, hasFile, upc, storeCall, indexCall>>
    /\ UNCHANGED fileVars
    /\ UNCHANGED mergeVars
    /\ UNCHANGED searchVars

\* fileStorageService.uploadFile throws 'File upload failed: ...'
StorageRejects ==
    /\ upload = "pending"
    /\ upload' = "error"
    /\ UNCHANGED <<controller, hasFile, upc, storeCall, indexCall>>
    /\ UNCHANGED fileVars
    /\ UNCHANGED mergeVars
    /\ UNCHANGED searchVars

\* storeData resolves with { success: true, rowCount }
StoreResolves ==
    /\ storeCall.status = "pending"
    /\ storeCall' = [storeCall EXCEPT !.status = "ok"]
    /\ UNCHANGED <<controller, hasFile, upc, upload, indexCall>>
    /\ UNCHANGED fileVars
    /\ UNCHANGED mergeVars
    /\ UNCHANGED searchVars

\* storeData rethrows the error of one of its database calls
StoreRejects ==
    /\ storeCall.status = "pending"
    /\ storeCall' = [storeCall EXCEPT !.status = "error"]
    /\ UNCHANGED <<controller, hasFile, upc, upload, indexCall>>
    /\ UNCHANGED fileVars
    /\ UNCHANGED mergeVars
    /\ UNCHANGED searchVars

\* indexData resolves with its counts
IndexResolves ==
    /\ indexCall.status = "pending"
    /\ indexCall' = [indexCall EXCEPT !.status = "ok"]
    /\ UNCHANGED <<controller, hasFile, upc, upload, storeCall>>
    /\ UNCHANGED fileVars
    /\ UNCHANGED mergeVars
    /\ UNCHANGED searchVars

\* indexData rejects
IndexRejects ==
    /\ indexCall.status = "pending"
    /\ indexCall' = [indexCall EXCEPT !.status = "error"]
    /\ UNCHANGED <<controller, hasFile, upc, upload, storeCall>>
    /\ UNCHANGED fileVars
    /\ UNCHANGED mergeVars
    /\ UNCHANGED searchVars

\* ---- the sequential controller ----

\* line 31: fileStorageService.uploadFile(file) is called and awaited
SeqCallStorage ==
    /\ controller = "sequential"
    /\ upc = "start"
    /\ hasFile
    /\ upload' = "pending"
    /\ upc' = "storage"
    /\ UNCHANGED <<controller, hasFile, storeCall, indexCall>>
    /\ UNCHANGED fileVars
    /\ UNCHANGED mergeVars
    /\ UNCHANGED searchVars

\* line 32: parseFile(file) is called and awaited
SeqCallParseFile ==
    /\ controller = "sequential"
    /\ upc = "storage"
    /\ upload = "ok"
    /\ fpc' = "start"
    /\ upc' = "parse"
    /\ UNCHANGED <<controller, hasFile, upload, storeCall, indexCall>>
    /\ UNCHANGED <<file, calls, excelError, result, returned, thrown>>
    /\ UNCHANGED mergeVars
    /\ UNCHANGED searchVars

\* line 34: storeData(parsedData.data) is called and awaited
SeqCallStoreData ==
    /\ controller = "sequential"
    /\ upc = "parse"
    /\ fpc = "resolved"
    /\ storeCall' = Call(returned.value.data)
    /\ upc' = "store"
    /\ UNCHANGED <<controller, hasFile, upload, indexCall>>
    /\ UNCHANGED fileVars
    /\ UNCHANGED mergeVars
    /\ UNCHANGED searchVars

\* line 35: indexData(parsedData.data) is called and awaited
SeqCallIndexData ==
    /\ controller = "sequential"
    /\ upc = "store"
    /\ storeCall.status = "ok"
    /\ indexCall' = Call(returned.value.data)
    /\ upc' = "index"
    /\ UNCHANGED <<controller, hasFile, upload, storeCall>>
    /\ UNCHANGED fileVars
    /\ UNCHANGED mergeVars
    /\ UNCHANGED searchVars

\* line 37
SeqReturn ==
    /\ controller = "sequential"
    /\ upc = "index"
    /\ indexCall.status = "ok"
    /\ upc' = "done"
    /\ UNCHANGED <<controller, hasFile, upload, storeCall, indexCall>>
    /\ UNCHANGED fileVars
    /\ UNCHANGED mergeVars
    /\ UNCHANGED searchVars

\* the awaited promise rejects: uploadFile rejects with its error
SeqAwaitRejects ==
    /\ controller = "sequential"
    /\ \/ upc = "storage" /\ upload = "error"
       \/ upc = "parse" /\ fpc = "rejected"
       \/ upc = "store" /\ storeCall.status = "error"
       \/ upc = "index" /\ indexCall.status = "error"
    /\ upc' = "failed"
    /\ UNCHANGED <<controller, hasFile, upload, storeCall, indexCall>>
    /\ UNCHANGED fileVars
    /\ UNCHANGED mergeVars
    /\ UNCHANGED searchVars

\* ---- the concurrent controller ----

\* lines 34-37: both promises are created, then awaited together
ConcCallStorageAndParseFile ==
    /\ controller = "concurrent"
    /\ upc = "start"
    /\ hasFile
    /\ upload' = "pending"
    /\ fpc' = "start"
    /\ upc' = "first"
    /\ UNCHANGED <<controller, hasFile, storeCall, indexCall>>
    /\ UNCHANGED <<file, calls, excelError, result, returned, thrown>>
    /\ UNCHANGED mergeVars
    /\ UNCHANGED searchVars

\* lines 39-42 entered as soon as the file is stored, parsed or not
ConcCallSinksEarly ==
    /\ controller = "concurrent"
    /\ upc = "first"
    /\ upload = "ok"
    /\ storeCall' = Call(returned.value.data)
    /\ indexCall' = Call(returned.value.data)
    /\ upc' = "second"
    /\ UNCHANGED <<controller, hasFile, upload>>
    /\ UNCHANGED fileVars
    /\ UNCHANGED mergeVars
    /\ UNCHANGED searchVars

\* lines 39-42: the first Promise.all has resolved; both sinks are called
ConcCallSinks ==
    /\ controller = "concurrent"
    /\ upc = "first"
    /\ upload = "ok"
    /\ fpc = "resolved"
    /\ storeCall' = Call(returned.value.data)
    /\ indexCall' = Call(returned.value.data)
    /\ upc' = "second"
    /\ UNCHANGED <<controller, hasFile, upload>>
    /\ UNCHANGED fileVars
    /\ UNCHANGED mergeVars
    /\ UNCHANGED searchVars

\* lines 44-47
ConcReturn ==
    /\ controller = "concurrent"
    /\ upc = "second"
    /\ storeCall.status = "ok"
    /\ indexCall.status = "ok"
    /\ upc' = "done"
    /\ UNCHANGED <<controller, hasFile, upload, storeCall, indexCall>>
    /\ UNCHANGED fileVars
    /\ UNCHANGED mergeVars
    /\ UNCHANGED searchVars

\* a Promise.all rejects as soon as one of its two promises does
ConcAwaitRejects ==
    /\ controller = "concurrent"
    /\ \/ upc = "first" /\ upload = "error"
       \/ upc = "first" /\ fpc = "rejected"
       \/ upc = "second" /\ storeCall.status = "error"
       \/ upc = "second" /\ indexCall.status = "error"
    /\ upc' = "failed"
    /\ UNCHANGED <<controller, hasFile, upload, storeCall, indexCall>>
    /\ UNCHANGED fileVars
    /\ UNCHANGED mergeVars
    /\ UNCHANGED searchVars

UploadNext ==
    \/ NoFileUploaded
    \/ StorageResolves
    \/ StorageRejects
    \/ StoreResolves
    \/ StoreRejects
    \/ IndexResolves
    \/ IndexRejects
    \/ SeqCallStorage
    \/ SeqCallParseFile
    \/ SeqCallStoreData
    \/ SeqCallIndexData
    \/ SeqReturn
    \/ SeqAwaitRejects
    \/ ConcCallStorageAndParseFile
    \/ ConcCallSinks
    \/ ConcReturn
    \/ ConcAwaitRejects
    \/ AcceptSize
    \/ ParseCsv
    \/ ParseExcelResolved
    \/ ParseExcelRejected
    \/ FallbackResolved
    \/ FallbackRejected
    \/ RejectUnsupported
    \/ MergeAndResolve
    \/ MergeThrows

SpecUpload == UploadInit /\ [][UploadNext]_vars

----------------------------------------------------------------------------
(* What the claim about uploadFile speaks of *)

\* parseFile has completed successfully
ParseFileResolved == fpc = "resolved" /\ returned.set

\* C18: storeData and indexData are invoked only after parseFile has completed
\* successfully, and both receive the same merged record sequence, the data of
\* the result parseFile resolved with; when no file is supplied or parseFile
\* fails, neither sink is invoked.
C18_SinksAfterParseFile ==
    /\ (storeCall.called \/ indexCall.called) => hasFile /\ ParseFileResolved
    /\ storeCall.called => storeCall.arg = returned.value.data
    /\ indexCall.called => indexCall.arg = returned.value.data
    /\ (storeCall.called /\ indexCall.called) => storeCall.arg = indexCall.arg
    /\ (~hasFile \/ fpc = "rejected") => ~storeCall.called /\ ~indexCall.called

\* a request has been served to the end: both sinks were given the one merged
\* record of the two rows of U1
C18_Witness ==
    /\ upc = "done"
    /\ Len(result.value.data) = 2
    /\ storeCall.called /\ indexCall.called
    /\ storeCall.arg = indexCall.arg
    /\ Len(storeCall.arg) = 1

\* parseFile has rejected and the request has failed with no sink called
C18_WitnessParseFailed ==
    /\ upc = "failed"
    /\ fpc = "rejected"
    /\ upload = "ok"
    /\ ~storeCall.called /\ ~indexCall.called

\* no file was supplied
C18_WitnessNoFile == upc = "badRequest" /\ ~storeCall.called /\ ~indexCall.called

----------------------------------------------------------------------------
(* C27: delimited text is never coerced to numbers *)

\* parseFile on a csv file has resolved
CsvResolved == fpc = "resolved" /\ Count(calls, "parseCSV") > 0

\* the records of d, in order, whose 'Unit Name' is the one of u
SameUnit(d, u) == SelectSeq(d, LAMBDA r : Get(r, UnitNameKey) = Get(u, UnitNameKey))

\* C27: every value in every record parseCSV produces is a string, also for a
\* field whose detected type is 'number'; parseFile on a csv file therefore
\* never sums: every merged value is a string, and two rows of one unit with
\* differing values of a field merge to the two values joined by ', ' (Unit
\* Price 100 and 50 to '100, 50').
C27_CsvValuesStayStrings ==
    /\ CsvParsed =>
           \A k \in 1..Len(result.value.data) : \A h \in DOMAIN result.value.data[k] :
               result.value.data[k][h].t = "string"
    /\ CsvResolved =>
           \A k \in 1..Len(returned.value.data) :
               LET u == returned.value.data[k]
                   us == SameUnit(result.value.data, u)
               IN  \A h \in DOMAIN u :
                       /\ u[h].t = "string"
                       /\ (/\ Len(us) = 2
                           /\ h \in DOMAIN us[1] /\ h \in DOMAIN us[2]
                           /\ us[1][h] # us[2][h])
                          => u[h] = Str(us[1][h].s \o <<",", " ">> \o us[2][h].s)

\* rows U1,100 and U1,50 under 'Unit Name,Unit Price', a field detected as a
\* number, have merged to one record with Unit Price '100, 50'
C27_Witness ==
    /\ CsvResolved
    /\ file.text = <<"Unit Name", ",", "Unit Price", LF, "U1", ",", "1", "0", "0", LF, "U1", ",", "5", "0">>
    /\ result.value.detectedFields[UnitPriceKey].type = "number"
    /\ returned.value.data =
           << (UnitNameKey :> Str(<<"U1">>))
                @@ (UnitPriceKey :> Str(<<"1", "0", "0", ",", " ", "5", "0">>)) >>

----------------------------------------------------------------------------
(* C28: what parseFile returns after the fallback parse *)

\* parseExcelFallback has resolved and parseFile has gone on from there
FallbackTaken ==
    /\ Count(calls, "parseExcelFallback") > 0
    /\ result # None
    /\ fpc \in {"resolved", "rejected"}

\* C28: whenever parseFile takes the fallback path and parseExcelFallback
\* succeeds, parseFile resolves with empty data: the fallback records are keyed
\* by column letters, so none has a 'Unit Name' field and the merger drops them
\* all; fields and detectedFields are not empty when the sheet has a row.
C28_FallbackDataIsEmpty ==
    FallbackTaken =>
        /\ fpc = "resolved"
        /\ \A k \in 1..Len(result.value.data) :
               /\ UnitNameKey \notin DOMAIN result.value.data[k]
               /\ \A h \in DOMAIN result.value.data[k] :
                      \E j \in 1..Len(ColumnLetters) : h = <<ColumnLetters[j]>>
        /\ returned.value.data = <<>>
        /\ Len(file.lenient.rows) > 0 =>
               /\ returned.value.fields # <<>>
               /\ DOMAIN returned.value.detectedFields # {}

\* a sheet with the header row Unit Name, Unit Price and two rows of values went
\* through the fallback: two records keyed A and B before merging, none after
C28_Witness ==
    /\ FallbackTaken
    /\ Len(file.lenient.rows) = 3
    /\ result.value.data =
           << (<<"A">> :> Str(<<"U1">>)) @@ (<<"B">> :> Str(<<"1", "0", "0">>)),
              (<<"A">> :> Str(<<"U2">>)) >>
    /\ returned.value.data = <<>>
    /\ returned.value.fields = << <<"A">>, <<"B">> >>

----------------------------------------------------------------------------
(* C29: the order of the merged records *)

\* the property keys of the records of d that are grouped, in the order in which
\* each first appears
RECURSIVE FirstAppearances(_, _)
FirstAppearances(d, j) ==
    IF j = 0 THEN <<>>
    ELSE LET before == FirstAppearances(d, j - 1)
             key == ToPropertyKey(Get(d[j], UnitNameKey))
         IN  IF Falsy(Get(d[j], UnitNameKey)) \/ (\E k \in 1..Len(before) : before[k] = key)
             THEN before
             ELSE Append(before, key)

\* C29: the merged records appear in the order in which their 'Unit Name' values
\* first appear in the input, for every input, integer-like names included.
C29_FirstAppearanceOrder ==
    mpc = "done" =>
        [j \in 1..Len(mergedUnits) |-> ToPropertyKey(Get(mergedUnits[j], UnitNameKey))]
            = FirstAppearances(data, Len(data))

----------------------------------------------------------------------------
(* C30: the three parts of a parse result agree *)

\* the names in a list of fields
Names(fields) == { fields[j] : j \in 1..Len(fields) }

\* detectedFields has one entry per field and no record has another key
Consistent(r) ==
    /\ DOMAIN r.detectedFields = Names(r.fields)
    /\ \A k \in 1..Len(r.data) : DOMAIN r.data[k] \subseteq Names(r.fields)

\* C30: on every parsing path (csv, spreadsheet, fallback) the keys of
\* detectedFields are the names in fields and every key of every record is a name
\* in fields, before and after merging; merging replaces data by the merged
\* records and leaves fields and detectedFields as the parser computed them.
C30_ResultConsistent ==
    /\ fpc \in {"merge", "resolved"} => Consistent(result.value)
    /\ fpc = "resolved" =>
           /\ Consistent(returned.value)
           /\ returned.value.fields = result.value.fields
           /\ returned.value.detectedFields = result.value.detectedFields
           /\ returned.value.data = mergeUnitsByName(result.value.data).value

----------------------------------------------------------------------------
(* SearchCache, search.service.ts lines 73-101 *)

TTL == 60000
CacheLimit == 100

\* where the Map holds the key, 0 when it has no entry for it
CachePos(c, key) ==
    IF \E j \in 1..Len(c) : c[j].key = key
    THEN CHOOSE j \in 1..Len(c) : c[j].key = key
    ELSE 0

\* Map.delete of the entry at position j
RemoveAt(c, j) == [k \in 1..(Len(c) - 1) |-> IF k < j THEN c[k] ELSE c[k + 1]]

\* get(key) at time t, lines 77-87: whether it returns data (else null), the
\* data, and the Map afterwards
CacheGet(c, key, t) ==
    LET j == CachePos(c, key)
    IN  IF j = 0 THEN [hit |-> FALSE, data |-> 0, cache |-> c]
        ELSE IF t - c[j].timestamp > TTL
            THEN [hit |-> FALSE, data |-> 0, cache |-> RemoveAt(c, j)]
        ELSE [hit |-> TRUE, data |-> c[j].data, cache |-> c]

\* set(key, value) at time t, lines 89-96: Map.set keeps the place of a key that
\* has an entry and appends a new one
CacheSet(c, key, value, t) ==
    LET kept == IF Len(c) > CacheLimit THEN Tail(c) ELSE c
        j == CachePos(kept, key)
        entry == [key |-> key, data |-> value, timestamp |-> t]
    IN  IF j = 0 THEN Append(kept, entry) ELSE [kept EXCEPT ![j] = entry]

----------------------------------------------------------------------------
(* SearchCache on its own: any sequence of get, set and clear *)

\* keys are numbered in the order in which they are first used
MaxKey == 103

\* the values Date.now() takes: the start, and a time when earlier entries have expired
Times == { 0, TTL + 1 }

\* the key after the last one in the Map
FreshKey == IF cache = <<>> THEN 1 ELSE cache[Len(cache)].key + 1

\* the keys the caller asks for: the oldest and newest entries and a new key
ProbeKeys ==
    (IF cache = <<>> THEN {} ELSE { cache[1].key, cache[Len(cache)].key })
        \cup (IF FreshKey <= MaxKey THEN { FreshKey } ELSE {})

CacheInit ==
    /\ SearchIdle
    /\ MergeIdle
    /\ FileIdle
    /\ UploadIdle

\* every variable of the service but the cache
ServiceUnchanged ==
    UNCHANGED <<timers, schemaValidated, collection, index, written, procs, run>>

\* searchCache.get(key)
GetEntry ==
    /\ \E key \in ProbeKeys : cache' = CacheGet(cache, key, now).cache
    /\ UNCHANGED now
    /\ ServiceUnchanged
    /\ UNCHANGED <<mergeVars, fileVars, uploadVars>>

\* searchCache.set(key, data), for a new key or the newest one
SetEntry ==
    /\ \E key \in ProbeKeys \ (IF Len(cache) > 1 THEN { cache[1].key } ELSE {}) :
           cache' = CacheSet(cache, key, 0, now)
    /\ UNCHANGED now
    /\ ServiceUnchanged
    /\ UNCHANGED <<mergeVars, fileVars, uploadVars>>

\* searchCache.clear()
ClearCache ==
    /\ cache' = <<>>
    /\ UNCHANGED now
    /\ ServiceUnchanged
    /\ UNCHANGED <<mergeVars, fileVars, uploadVars>>

\* time passes
Tick ==
    /\ \E t \in Times : t > now /\ now' = t
    /\ UNCHANGED cache
    /\ ServiceUnchanged
    /\ UNCHANGED <<mergeVars, fileVars, uploadVars>>

CacheNext ==
    \/ GetEntry
    \/ SetEntry
    \/ ClearCache
    \/ Tick

SpecCache == CacheInit /\ [][CacheNext]_vars

\* C26: after any sequence of get, set and clear the cache holds at most 100
\* entries.
C26_AtMostLimit == Len(cache) <= CacheLimit

----------------------------------------------------------------------------
(* The collection in the search engine, and SearchService.ensureCollection   *)
(* and resetCollection, search.service.ts lines 136-220.  A request to the   *)
(* engine and the code that runs on its answer are one step.                 *)

\* the fields a search sorts by: the default, the fallback of line 589, and a
\* field of the caller's choice that the schema of lines 150-161 does not have
DefaultSort == "Unit Price Numeric"
FallbackSort == "Unit Name"
SortFields == { DefaultSort, FallbackSort, "Floor" }

\* the fields of SortFields the engine can sort by: the float field of the schema
\* of lines 150-161; a string field is sortable only when declared with sort: true
Sortable(c) == IF c = "ready" THEN { DefaultSort } ELSE {}

\* lines 189-214: the flag is set, or the collection is retrieved and has the
\* float field 'Unit Price Numeric'; otherwise resetCollection is called
EnsureCollection(p) ==
    /\ procs[p].pc = "ensure"
    /\ IF schemaValidated
       THEN /\ procs' = [procs EXCEPT ![p].ready = TRUE, ![p].pc = procs[p].back]
            /\ UNCHANGED schemaValidated
       ELSE IF collection = "ready"
       THEN /\ procs' = [procs EXCEPT ![p].ready = TRUE, ![p].pc = procs[p].back]
            /\ schemaValidated' = TRUE
       ELSE /\ procs' = [procs EXCEPT ![p].pc = "reset"]
            /\ UNCHANGED schemaValidated
    /\ UNCHANGED <<cache, now, timers, collection, index, written, run>>
    /\ UNCHANGED <<mergeVars, fileVars, uploadVars>>

\* lines 194-197 and 215-219: retrieve() rejects although the collection is there
EnsureRetrieveFails(p) ==
    /\ procs[p].pc = "ensure"
    /\ ~schemaValidated
    /\ collection # "missing"
    /\ procs' = [procs EXCEPT ![p].pc = "reset"]
    /\ UNCHANGED <<cache, now, timers, schemaValidated, collection, index, written, run>>
    /\ UNCHANGED <<mergeVars, fileVars, uploadVars>>

\* lines 139-149: delete() removes the collection, or rejects because there is none
ResetDelete(p) ==
    /\ procs[p].pc = "reset"
    /\ collection' = "missing"
    /\ procs' = [procs EXCEPT ![p].pc = "create"]
    /\ UNCHANGED <<cache, now, timers, schemaValidated, index, written, run>>
    /\ UNCHANGED <<mergeVars, fileVars, uploadVars>>

\* lines 139-149: delete() rejects and leaves the collection; the error is logged
ResetDeleteFails(p) ==
    /\ procs[p].pc = "reset"
    /\ collection # "missing"
    /\ procs' = [procs EXCEPT ![p].pc = "create"]
    /\ UNCHANGED <<cache, now, timers, schemaValidated, collection, index, written, run>>
    /\ UNCHANGED <<mergeVars, fileVars, uploadVars>>

\* lines 150-183: create() makes the collection and the flag is set, or it
\* rejects because the collection exists and resetCollection returns false
ResetCreate(p) ==
    /\ procs[p].pc = "create"
    /\ IF collection = "missing"
       THEN /\ collection' = "ready"
            /\ schemaValidated' = TRUE
            /\ procs' = [procs EXCEPT ![p].ready = TRUE, ![p].pc = procs[p].back]
       ELSE /\ procs' = [procs EXCEPT ![p].ready = FALSE, ![p].pc = procs[p].back]
            /\ UNCHANGED <<collection, schemaValidated>>
    /\ UNCHANGED <<cache, now, timers, index, written, run>>
    /\ UNCHANGED <<mergeVars, fileVars, uploadVars>>

\* lines 167-183: create() rejects for another reason
ResetCreateFails(p) ==
    /\ procs[p].pc = "create"
    /\ procs' = [procs EXCEPT ![p].ready = FALSE, ![p].pc = procs[p].back]
    /\ UNCHANGED <<cache, now, timers, schemaValidated, collection, index, written, run>>
    /\ UNCHANGED <<mergeVars, fileVars, uploadVars>>

----------------------------------------------------------------------------
(* SearchService.search, search.service.ts lines 445-624 *)

\* how many calls of search one call may nest
MaxDepth == 3

\* line 495: JSON.stringify({ q: safeQuery, ...options }), the query being the same
CacheKey(pr) == [sortBy |-> pr.sortBy, useCache |-> pr.useCache]

Max(a, b) == IF a >= b THEN a ELSE b

\* a caller calls search(query, { sortBy, useCache }), lines 445-462
SearchCall(p, sortBy, useCache) ==
    /\ procs[p].pc = "idle"
    /\ procs' = [procs EXCEPT ![p] =
           [IdleProc EXCEPT !.op = "search", !.pc = "ensure", !.back = "lookup",
                            !.sortBy = sortBy, !.useCache = useCache]]
    /\ UNCHANGED <<cache, now, timers, schemaValidated, collection, index, written, run>>
    /\ UNCHANGED <<mergeVars, fileVars, uploadVars>>

\* lines 498-507: the cache has the key and search returns the cached result
SearchCacheHit(p) ==
    /\ procs[p].pc = "lookup"
    /\ procs[p].useCache
    /\ CacheGet(cache, CacheKey(procs[p]), now).hit
    /\ procs' = [procs EXCEPT ![p].pc = "returned",
                              ![p].out = [kind |-> "result",
                                          data |-> CacheGet(cache, CacheKey(procs[p]), now).data,
                                          fromCache |-> TRUE,
                                          written |-> written]]
    /\ UNCHANGED <<cache, now, timers, schemaValidated, collection, index, written, run>>
    /\ UNCHANGED <<mergeVars, fileVars, uploadVars>>

\* lines 498-519: no cached result; the request is sent to the engine
SearchCacheMiss(p) ==
    /\ procs[p].pc = "lookup"
    /\ ~(procs[p].useCache /\ CacheGet(cache, CacheKey(procs[p]), now).hit)
    /\ cache' = IF procs[p].useCache THEN CacheGet(cache, CacheKey(procs[p]), now).cache
                ELSE cache
    /\ procs' = [procs EXCEPT ![p].pc = "query"]
    /\ UNCHANGED <<now, timers, schemaValidated, collection, index, written, run>>
    /\ UNCHANGED <<mergeVars, fileVars, uploadVars>>

\* lines 514-519: the engine computes the result from the documents it has
SearchResponds(p) ==
    /\ procs[p].pc = "query"
    /\ collection # "missing"
    /\ procs[p].sortBy \in Sortable(collection)
    /\ procs' = [procs EXCEPT ![p].seen = index, ![p].pc = "got"]
    /\ UNCHANGED <<cache, now, timers, schemaValidated, collection, index, written, run>>
    /\ UNCHANGED <<mergeVars, fileVars, uploadVars>>

\* lines 530-546: the result arrives, is cached and returned
SearchStore(p) ==
    /\ procs[p].pc = "got"
    /\ cache' = IF procs[p].useCache
                THEN CacheSet(cache, CacheKey(procs[p]), procs[p].seen, now)
                ELSE cache
    /\ procs' = [procs EXCEPT ![p].pc = "returned",
                              ![p].out = [kind |-> "result", data |-> procs[p].seen,
                                          fromCache |-> FALSE, written |-> written]]
    /\ UNCHANGED <<now, timers, schemaValidated, collection, index, written, run>>
    /\ UNCHANGED <<mergeVars, fileVars, uploadVars>>

\* lines 547-604: the engine answers 'Could not find a field named ...'; on the
\* first attempt of this call resetCollection is called, otherwise the detailed
\* error is thrown
SearchFieldError(p) ==
    /\ procs[p].pc = "query"
    /\ collection # "missing"
    /\ procs[p].sortBy \notin Sortable(collection)
    /\ IF procs[p].retryCount = 0
       THEN procs' = [procs EXCEPT ![p].pc = "reset", ![p].back = "retry",
                                   ![p].resets = procs[p].resets + 1]
       ELSE procs' = [procs EXCEPT ![p].pc = "thrown",
                                   ![p].out = [NoOutcome EXCEPT !.kind = "fieldError"]]
    /\ UNCHANGED <<cache, now, timers, schemaValidated, collection, index, written, run>>
    /\ UNCHANGED <<mergeVars, fileVars, uploadVars>>

\* lines 606-622: the engine has no such collection, the request fails or times
\* out; search throws the general error
SearchFails(p) ==
    /\ procs[p].pc = "query"
    /\ procs' = [procs EXCEPT ![p].pc = "thrown",
                              ![p].out = [NoOutcome EXCEPT !.kind = "error"]]
    /\ UNCHANGED <<cache, now, timers, schemaValidated, collection, index, written, run>>
    /\ UNCHANGED <<mergeVars, fileVars, uploadVars>>

\* lines 577-594: resetCollection has returned; retryCount++ and
\* `return this.search(query, options)`, with sortBy 'Unit Name' when the reset
\* failed.  The new call has its own retryCount, 0 (line 459).
SearchRetry(p) ==
    /\ procs[p].pc = "retry"
    /\ Len(procs[p].stack) < MaxDepth
    /\ procs' = [procs EXCEPT
           ![p].stack = Append(procs[p].stack, procs[p].retryCount + 1),
           ![p].retryCount = 0,
           ![p].sortBy = IF procs[p].ready THEN procs[p].sortBy ELSE FallbackSort,
           ![p].pc = "ensure",
           ![p].back = "lookup"]
    /\ UNCHANGED <<cache, now, timers, schemaValidated, collection, index, written, run>>
    /\ UNCHANGED <<mergeVars, fileVars, uploadVars>>

----------------------------------------------------------------------------
(* SearchService.updateDocument, search.service.ts lines 353-443 *)

UpdateCall(p) ==
    /\ procs[p].pc = "idle"
    /\ procs' = [procs EXCEPT ![p] =
           [IdleProc EXCEPT !.op = "updateDocument", !.pc = "ensure", !.back = "update"]]
    /\ UNCHANGED <<cache, now, timers, schemaValidated, collection, index, written, run>>
    /\ UNCHANGED <<mergeVars, fileVars, uploadVars>>

\* lines 363-371: ensureCollection returned false
UpdateNotReady(p) ==
    /\ procs[p].pc = "update"
    /\ ~procs[p].ready
    /\ procs' = [procs EXCEPT ![p].pc = "returned",
                              ![p].out = [NoOutcome EXCEPT !.kind = "failed"]]
    /\ UNCHANGED <<cache, now, timers, schemaValidated, collection, index, written, run>>
    /\ UNCHANGED <<mergeVars, fileVars, uploadVars>>

\* lines 410-414: the engine applies the update
UpdateApplied(p) ==
    /\ procs[p].pc = "update"
    /\ procs[p].ready
    /\ collection # "missing"
    /\ index' = index + 1
    /\ procs' = [procs EXCEPT ![p].pc = "updated", ![p].mine = index + 1]
    /\ UNCHANGED <<cache, now, timers, schemaValidated, collection, written, run>>
    /\ UNCHANGED <<mergeVars, fileVars, uploadVars>>

\* lines 427-442: update() rejects
UpdateRejected(p) ==
    /\ procs[p].pc = "update"
    /\ procs[p].ready
    /\ procs' = [procs EXCEPT ![p].pc = "returned",
                              ![p].out = [NoOutcome EXCEPT !.kind = "failed"]]
    /\ UNCHANGED <<cache, now, timers, schemaValidated, collection, index, written, run>>
    /\ UNCHANGED <<mergeVars, fileVars, uploadVars>>

\* lines 416-426: the cache is cleared and { success: true } returned
UpdateDone(p) ==
    /\ procs[p].pc = "updated"
    /\ cache' = <<>>
    /\ written' = Max(written, procs[p].mine)
    /\ procs' = [procs EXCEPT ![p].pc = "returned",
                              ![p].out = [NoOutcome EXCEPT !.kind = "ok"]]
    /\ UNCHANGED <<now, timers, schemaValidated, collection, index, run>>
    /\ UNCHANGED <<mergeVars, fileVars, uploadVars>>

----------------------------------------------------------------------------
(* SearchService.indexData, search.service.ts lines 225-348.  The records are *)
(* numbered 1..n; a batch is the range of records it holds.  For each batch   *)
(* the call keeps the state of its import (new, flight, resolved, rejected),  *)
(* `items`, the number of its records the engine has imported, and `started`, *)
(* the number of imports made for it.                                         *)

BATCH_SIZE == 1000
MAX_CONCURRENT == 3

\* lines 252-256: data.slice(j, j + BATCH_SIZE) for j = 0, BATCH_SIZE, ...
RECURSIVE Batches(_, _)
Batches(n, j) ==
    IF j >= n THEN <<>>
    ELSE <<[lo |-> j + 1, hi |-> Min(j + BATCH_SIZE, n)]>> \o Batches(n, j + BATCH_SIZE)

Size(b) == b.hi - b.lo + 1

\* batches.slice(i, i + MAX_CONCURRENT), line 294-295
Group(r) == { b \in 1..Len(r.batches) : r.i < b /\ b <= r.i + MAX_CONCURRENT }

\* Promise.all where one import of the group resolving is enough
GroupSettledAny(r) == \E b \in Group(r) : r.state[b] = "resolved"

\* line 298: Promise.all(batchPromises) resolves when every import has resolved
GroupSettled(r) == \A b \in Group(r) : r.state[b] = "resolved"

\* the sum of f over the batches of S
RECURSIVE SumOver(_, _)
SumOver(f, S) ==
    IF S = {} THEN 0
    ELSE LET b == CHOOSE x \in S : TRUE IN f[b] + SumOver(f, S \ {b})

\* lines 225-256: the flag is set without looking at the collection and the
\* batches are cut
IndexDataCall(n) ==
    /\ procs[Writer].pc = "idle"
    /\ schemaValidated' = TRUE
    /\ run' = [NoRun EXCEPT !.n = n,
                            !.batches = Batches(n, 0),
                            !.state = [b \in 1..Len(Batches(n, 0)) |-> "new"],
                            !.items = [b \in 1..Len(Batches(n, 0)) |-> 0],
                            !.started = [b \in 1..Len(Batches(n, 0)) |-> 0]]
    /\ procs' = [procs EXCEPT ![Writer] = [IdleProc EXCEPT !.op = "indexData", !.pc = "loop"]]
    /\ UNCHANGED <<cache, now, timers, collection, index, written>>
    /\ UNCHANGED <<mergeVars, fileVars, uploadVars>>

\* lines 293-298: the imports of the next group are started
IndexStartGroup ==
    /\ procs[Writer].pc = "loop"
    /\ run.i < Len(run.batches)
    /\ run' = [run EXCEPT
           !.state = [b \in DOMAIN run.state |-> IF b \in Group(run) THEN "flight" ELSE run.state[b]],
           !.started = [b \in DOMAIN run.started |->
                           IF b \in Group(run) THEN run.started[b] + 1 ELSE run.started[b]]]
    /\ procs' = [procs EXCEPT ![Writer].pc = "await"]
    /\ UNCHANGED <<cache, now, timers, schemaValidated, collection, index, written>>
    /\ UNCHANGED <<mergeVars, fileVars, uploadVars>>

\* lines 280-285: the engine imports a batch and answers with one result per
\* record, all successful or all but one
ImportResolves(b) ==
    /\ b \in DOMAIN run.state
    /\ run.state[b] = "flight"
    /\ collection # "missing"
    /\ \E k \in { Size(run.batches[b]), Size(run.batches[b]) - 1 } :
           run' = [run EXCEPT !.state[b] = "resolved", !.items[b] = k]
    /\ index' = index + 1
    /\ UNCHANGED <<cache, now, timers, schemaValidated, collection, written, procs>>
    /\ UNCHANGED <<mergeVars, fileVars, uploadVars>>

\* lines 280-285: the import of a batch rejects, nothing of it imported
ImportRejects(b) ==
    /\ b \in DOMAIN run.state
    /\ run.state[b] = "flight"
    /\ run' = [run EXCEPT !.state[b] = "rejected"]
    /\ UNCHANGED <<cache, now, timers, schemaValidated, collection, index, written, procs>>
    /\ UNCHANGED <<mergeVars, fileVars, uploadVars>>

\* lines 298-300: every import of the group has resolved; the results are kept
IndexGroupResolved ==
    /\ procs[Writer].pc = "await"
    /\ GroupSettled(run)
    /\ run' = [run EXCEPT
           !.results = [success |-> run.results.success + SumOver(run.items, Group(run)),
                        failed |-> run.results.failed
                            + SumOver([b \in DOMAIN run.items |->
                                          Size(run.batches[b]) - run.items[b]], Group(run))],
           !.i = run.i + MAX_CONCURRENT]
    /\ procs' = [procs EXCEPT ![Writer].pc = "loop"]
    /\ UNCHANGED <<cache, now, timers, schemaValidated, collection, index, written>>
    /\ UNCHANGED <<mergeVars, fileVars, uploadVars>>

\* lines 298 and 333-347: an import of the group has rejected
IndexCatch ==
    /\ procs[Writer].pc = "await"
    /\ \E b \in Group(run) : run.state[b] = "rejected"
    /\ run' = [run EXCEPT !.result =
           [returned |-> TRUE, success |-> FALSE, totalItems |-> run.n,
            successCount |-> 0, failedCount |-> run.n]]
    /\ procs' = [procs EXCEPT ![Writer].pc = "returned",
                              ![Writer].out = [NoOutcome EXCEPT !.kind = "failed"]]
    /\ UNCHANGED <<cache, now, timers, schemaValidated, collection, index, written>>
    /\ UNCHANGED <<mergeVars, fileVars, uploadVars>>

\* lines 293 and 302-332: no batch is left; the results are counted, the clearing
\* of the cache is left to a timer and the result returned
IndexFinish ==
    /\ procs[Writer].pc = "loop"
    /\ run.i >= Len(run.batches)
    /\ run' = [run EXCEPT !.result =
           [returned |-> TRUE, success |-> run.results.failed = 0, totalItems |-> run.n,
            successCount |-> run.results.success, failedCount |-> run.results.failed]]
    /\ timers' = timers + 1
    /\ written' = IF run.results.failed = 0 THEN index ELSE written
    /\ procs' = [procs EXCEPT ![Writer].pc = "returned",
                              ![Writer].out = [NoOutcome EXCEPT !.kind = "ok"]]
    /\ UNCHANGED <<cache, now, schemaValidated, collection, index>>
    /\ UNCHANGED <<mergeVars, fileVars, uploadVars>>

\* line 324: the callback of setTimeout(..., 0) runs
TimerFires ==
    /\ timers > 0
    /\ timers' = timers - 1
    /\ cache' = <<>>
    /\ UNCHANGED <<now, schemaValidated, collection, index, written, procs, run>>
    /\ UNCHANGED <<mergeVars, fileVars, uploadVars>>

----------------------------------------------------------------------------
(* indexData on its own: one call, for inputs of up to MaxBatches batches *)

MaxBatches == 4

\* data.length: none, one record, and full batches with and without one more
IndexSizes ==
    { 0, 1 } \cup { k * BATCH_SIZE : k \in 1..MaxBatches }
        \cup { k * BATCH_SIZE + 1 : k \in 1..(MaxBatches - 1) }

IndexInit ==
    /\ cache = <<>>
    /\ now = 0
    /\ timers = 0
    /\ schemaValidated = FALSE
    /\ collection \in { "missing", "ready" }
    /\ index = 0
    /\ written = 0
    /\ procs = [p \in Procs |-> IdleProc]
    /\ run = NoRun
    /\ MergeIdle
    /\ FileIdle
    /\ UploadIdle

IndexNext ==
    \/ \E n \in IndexSizes : IndexDataCall(n)
    \/ IndexStartGroup
    \/ \E b \in DOMAIN run.state : ImportResolves(b)
    \/ \E b \in DOMAIN run.state : ImportRejects(b)
    \/ IndexGroupResolved
    \/ IndexCatch
    \/ IndexFinish
    \/ TimerFires

SpecIndex == IndexInit /\ [][IndexNext]_vars

----------------------------------------------------------------------------
(* C24, C25: the batches of indexData and the result it reports *)

\* the group of MAX_CONCURRENT batches that batch b belongs to
GroupOf3(b) == (b - 1) \div MAX_CONCURRENT

InFlight == { b \in DOMAIN run.state : run.state[b] = "flight" }

\* C24: the input is cut into consecutive batches of at most 1000 records, so
\* that every record is in exactly one batch, and no batch is imported twice; at
\* most 3 imports are in flight at any time; the imports of a group are started
\* only after every import of the groups before it has completed; when indexData
\* returns its counted result every batch has been imported once.
C24_BatchesOfThousandThreeAtATime ==
    procs[Writer].op = "indexData" =>
        /\ \A b \in DOMAIN run.batches : Size(run.batches[b]) \in 1..BATCH_SIZE
        /\ run.n > 0 =>
               /\ run.batches[1].lo = 1
               /\ run.batches[Len(run.batches)].hi = run.n
        /\ run.n = 0 => run.batches = <<>>
        /\ \A b \in DOMAIN run.batches :
               b > 1 => run.batches[b].lo = run.batches[b - 1].hi + 1
        /\ \A b \in DOMAIN run.started : run.started[b] <= 1
        /\ Cardinality(InFlight) <= MAX_CONCURRENT
        /\ \A b, c \in DOMAIN run.state :
               (run.state[b] # "new" /\ GroupOf3(c) < GroupOf3(b)) => run.state[c] = "resolved"
        /\ procs[Writer].out.kind = "ok" =>
               \A b \in DOMAIN run.state : run.started[b] = 1 /\ run.state[b] = "resolved"

\* of 3001 records the first three batches have been imported and the fourth,
\* of one record, is in flight alone
C24_Witness ==
    /\ procs[Writer].op = "indexData"
    /\ run.n = 3 * BATCH_SIZE + 1
    /\ Len(run.batches) = 4
    /\ run.batches[4] = [lo |-> 3001, hi |-> 3001]
    /\ InFlight = {4}
    /\ \A b \in 1..3 : run.state[b] = "resolved"

\* C25: indexData always resolves, with totalItems the number of input records,
\* successCount + failedCount = totalItems, successCount the number of records
\* actually imported, and success exactly when failedCount = 0.
C25_ResultAccounts ==
    run.result.returned =>
        /\ run.result.totalItems = run.n
        /\ run.result.successCount + run.result.failedCount = run.result.totalItems
        /\ run.result.successCount = SumOver(run.items, DOMAIN run.items)
        /\ run.result.success <=> run.result.failedCount = 0

----------------------------------------------------------------------------
(* The service with one caller of search and one caller of indexData or       *)
(* updateDocument, over a collection that is missing, old or ready at first.  *)
(* A single call of search never finds its own key in the cache, so the cache *)
(* hit has no step here; SpecCoherence follows it.                            *)

SearchInit ==
    /\ cache = <<>>
    /\ now = 0
    /\ timers = 0
    /\ schemaValidated = FALSE
    /\ collection \in { "missing", "old", "ready" }
    /\ index = 0
    /\ written = 0
    /\ procs = [p \in Procs |-> IdleProc]
    /\ run = NoRun
    /\ MergeIdle
    /\ FileIdle
    /\ UploadIdle

\* the steps of ensureCollection and resetCollection, for any caller
CollectionNext ==
    \/ \E p \in Procs : EnsureCollection(p)
    \/ \E p \in Procs : EnsureRetrieveFails(p)
    \/ \E p \in Procs : ResetDelete(p)
    \/ \E p \in Procs : ResetDeleteFails(p)
    \/ \E p \in Procs : ResetCreate(p)
    \/ \E p \in Procs : ResetCreateFails(p)

SearchNext ==
    \/ \E sortBy \in SortFields, useCache \in BOOLEAN : SearchCall("s1", sortBy, useCache)
    \/ CollectionNext
    \/ \E p \in Searchers : SearchCacheMiss(p)
    \/ \E p \in Searchers : SearchResponds(p)
    \/ \E p \in Searchers : SearchStore(p)
    \/ \E p \in Searchers : SearchFieldError(p)
    \/ \E p \in Searchers : SearchFails(p)
    \/ \E p \in Searchers : SearchRetry(p)
    \/ UpdateCall(Writer)
    \/ UpdateNotReady(Writer)
    \/ UpdateApplied(Writer)
    \/ UpdateRejected(Writer)
    \/ UpdateDone(Writer)
    \/ \E n \in { 0, 1 } : IndexDataCall(n)
    \/ IndexStartGroup
    \/ \E b \in DOMAIN run.state : ImportResolves(b)
    \/ \E b \in DOMAIN run.state : ImportRejects(b)
    \/ IndexGroupResolved
    \/ IndexCatch
    \/ IndexFinish
    \/ TimerFires

SpecSearch == SearchInit /\ [][SearchNext]_vars

\* C21: a call of search that fails with 'Could not find a field named' resets
\* the collection and retries at most once; a retry that fails with the same
\* error throws the detailed error instead of resetting and retrying again.
C21_ResetsAtMostOnce ==
    \A p \in Searchers :
        /\ procs[p].resets <= 1
        /\ Len(procs[p].stack) <= 1

\* C23: schemaValidated is true only if the collection was retrieved and found
\* to have the float field 'Unit Price Numeric' or was created by
\* resetCollection; so whenever ensureCollection skips validation the collection
\* exists with the required schema.
C23_ValidatedMeansReady == schemaValidated => collection = "ready"

----------------------------------------------------------------------------
(* The cache against the writes: two callers of search with the cache on and  *)
(* one write, over a collection that is ready                                 *)

CoherenceInit ==
    /\ cache = <<>>
    /\ now = 0
    /\ timers = 0
    /\ schemaValidated = FALSE
    /\ collection = "ready"
    /\ index = 0
    /\ written = 0
    /\ procs = [p \in Procs |-> IdleProc]
    /\ run = NoRun
    /\ MergeIdle
    /\ FileIdle
    /\ UploadIdle

CoherenceNext ==
    \/ \E p \in Searchers : SearchCall(p, DefaultSort, TRUE)
    \/ \E p \in Procs : EnsureCollection(p)
    \/ \E p \in Searchers : SearchCacheHit(p)
    \/ \E p \in Searchers : SearchCacheMiss(p)
    \/ \E p \in Searchers : SearchResponds(p)
    \/ \E p \in Searchers : SearchStore(p)
    \/ UpdateCall(Writer)
    \/ UpdateApplied(Writer)
    \/ UpdateDone(Writer)
    \/ IndexDataCall(1)
    \/ IndexStartGroup
    \/ \E b \in DOMAIN run.state : ImportResolves(b)
    \/ IndexGroupResolved
    \/ IndexFinish
    \/ TimerFires

SpecCoherence == CoherenceInit /\ [][CoherenceNext]_vars

\* C22: once indexData or updateDocument has completed successfully, no later
\* search with useCache = true returns a cached result that was obtained from
\* the index before that write.
C22_NoStaleCachedResult ==
    \A p \in Searchers :
        (procs[p].out.kind = "result" /\ procs[p].out.fromCache)
            => procs[p].out.data >= procs[p].out.written

====
